---------------------------- MODULE Spec2Model ----------------------------
(***************************************************************************)
(* Model of the HiBid company scraper: the SSRF-safe URL validator         *)
(* (api/_lib/security.py), the extraction pipeline (api/_lib/scraper.py)   *)
(* and the two GET handlers (api/get_company_details.py,                   *)
(* api/get_company_list.py).                                               *)
(*                                                                         *)
(* Text is modelled as a sequence of one-character strings, so that        *)
(* parsing, normalisation and formatting are computed as the code computes *)
(* them.  Python's None is the record NoneV; optional values are records   *)
(* tagged "none" / "str" / "int".                                          *)
(***************************************************************************)
EXTENDS Integers, Sequences, FiniteSets, TLC

VARIABLES
    op,         \* which entry point this run exercises
    pc,         \* position inside the entry point
    request,    \* the untrusted input: raw_url / url parameter / page parameter
    validated,  \* what validate_url produced (details endpoint, direct call)
    lookups,    \* DNS lookups issued so far: <<[host, answer]>>
    fetches,    \* page fetches issued so far: <<[url, ok]>>
    markup,     \* markup returned by the latest successful fetch
    steps,      \* extraction strategies attempted so far, in order
    apollo,     \* result of the embedded-state strategy
    response    \* the HTTP response sent (status, payload)

vars == <<op, pc, request, validated, lookups, fetches, markup, steps, apollo, response>>

-----------------------------------------------------------------------------
(* Bounds of the model *)

\* most addresses one DNS answer carries
MaxAddrs == 2
\* most entries of the embedded state (ROOT_QUERY aside)
MaxEntries == 2
\* most references of an auctioneerSearch results list
MaxRefs == 2
\* most data rows of the company table
MaxRows == 2
\* the longest company name handed to _make_slug
MaxNameLen == 4

-----------------------------------------------------------------------------
(* Python values *)

NoneV == [tag |-> "none"]
StrV(s) == [tag |-> "str", val |-> s]
IntV(n) == [tag |-> "int", val |-> n]
Raised(e) == [tag |-> "raise", exc |-> e]

\* Python truthiness of None / str / int values
Truthy(v) ==
    CASE v.tag = "none" -> FALSE
      [] v.tag = "str" -> v.val # <<>>
      [] v.tag = "int" -> v.val # 0
      [] OTHER -> TRUE

-----------------------------------------------------------------------------
(* Text primitives (str methods used by the code) *)

Drop(s, n) == SubSeq(s, n + 1, Len(s))
Take(s, n) == SubSeq(s, 1, n)

StartsWith(s, p) == Len(s) >= Len(p) /\ SubSeq(s, 1, Len(p)) = p

Contains(s, c) == \E i \in 1..Len(s) : s[i] = c

\* str.find(c, start): least index >= start holding c, 0 when there is none
FindFrom(s, c, start) ==
    IF \E i \in start..Len(s) : s[i] = c
    THEN CHOOSE i \in start..Len(s) : s[i] = c /\ \A j \in start..(i - 1) : s[j] # c
    ELSE 0

Find(s, c) == FindFrom(s, c, 1)

\* str.rfind(c): greatest index holding c, 0 when there is none
RFind(s, c) ==
    IF Contains(s, c)
    THEN CHOOSE i \in 1..Len(s) : s[i] = c /\ \A j \in (i + 1)..Len(s) : s[j] # c
    ELSE 0

\* least index >= start holding any character of cs, Len(s)+1 when there is none
FindAny(s, cs, start) ==
    IF \E i \in start..Len(s) : s[i] \in cs
    THEN CHOOSE i \in start..Len(s) : s[i] \in cs /\ \A j \in start..(i - 1) : s[j] \notin cs
    ELSE Len(s) + 1

\* str.strip(chars): drop leading and trailing characters that are in cs
StripSet(s, cs) ==
    IF \A i \in 1..Len(s) : s[i] \in cs THEN <<>>
    ELSE LET a == CHOOSE i \in 1..Len(s) : s[i] \notin cs /\ \A j \in 1..(i - 1) : s[j] \in cs
             b == CHOOSE i \in 1..Len(s) : s[i] \notin cs /\ \A j \in (i + 1)..Len(s) : s[j] \in cs
         IN SubSeq(s, a, b)

Whitespace == {" ", "\t", "\n", "\r"}

Strip(s) == StripSet(s, Whitespace)

\* str.split(c): the pieces between occurrences of c (always at least one piece)
RECURSIVE Split(_, _)
Split(s, c) ==
    LET i == Find(s, c)
    IN IF i = 0 THEN <<s>> ELSE <<Take(s, i - 1)>> \o Split(Drop(s, i), c)

LowerLetters == <<"a", "b", "c", "d", "e", "f", "g", "h", "i", "j", "k", "l", "m",
                  "n", "o", "p", "q", "r", "s", "t", "u", "v", "w", "x", "y", "z">>
UpperLetters == <<"A", "B", "C", "D", "E", "F", "G", "H", "I", "J", "K", "L", "M",
                  "N", "O", "P", "Q", "R", "S", "T", "U", "V", "W", "X", "Y", "Z">>
Digits == <<"0", "1", "2", "3", "4", "5", "6", "7", "8", "9">>

LowerChar(c) ==
    IF \E i \in 1..26 : UpperLetters[i] = c
    THEN LowerLetters[CHOOSE i \in 1..26 : UpperLetters[i] = c]
    ELSE c

\* str.lower()
Lower(s) == [i \in 1..Len(s) |-> LowerChar(s[i])]

IsDigit(c) == \E i \in 1..10 : Digits[i] = c
IsAlpha(c) == \E i \in 1..26 : LowerLetters[i] = c \/ UpperLetters[i] = c
DigitVal(c) == (CHOOSE i \in 1..10 : Digits[i] = c) - 1

RECURSIVE DigitsValue(_)
DigitsValue(s) ==
    IF s = <<>> THEN 0
    ELSE IF s[Len(s)] = "_" THEN DigitsValue(Take(s, Len(s) - 1))
    ELSE 10 * DigitsValue(Take(s, Len(s) - 1)) + DigitVal(s[Len(s)])

\* int(s): surrounding whitespace, one optional sign, digits with single
\* underscores between them; anything else raises ValueError
PyInt(s) ==
    LET t == Strip(s)
        signed == t # <<>> /\ t[1] \in {"+", "-"}
        d == IF signed THEN Drop(t, 1) ELSE t
        ok == /\ d # <<>>
              /\ IsDigit(d[1]) /\ IsDigit(d[Len(d)])
              /\ \A i \in 1..Len(d) : IsDigit(d[i]) \/ d[i] = "_"
              /\ \A i \in 1..(Len(d) - 1) : ~(d[i] = "_" /\ d[i + 1] = "_")
    IN IF ~ok THEN Raised("ValueError")
       ELSE IntV(IF signed /\ t[1] = "-" THEN 0 - DigitsValue(d) ELSE DigitsValue(d))

RECURSIVE NatToChars(_)
NatToChars(n) ==
    IF n < 10 THEN <<Digits[n + 1]>>
    ELSE NatToChars(n \div 10) \o <<Digits[(n % 10) + 1]>>

\* str(n) for an integer
IntToChars(n) == IF n < 0 THEN <<"-">> \o NatToChars(0 - n) ELSE NatToChars(n)

-----------------------------------------------------------------------------
(* api/_lib/config.py *)

HIBID_BASE_URL == <<"h", "t", "t", "p", "s", ":", "/", "/", "h", "i", "b", "i", "d", ".", "c", "o", "m">>
COMPANYSEARCH_URL == HIBID_BASE_URL \o <<"/", "c", "o", "m", "p", "a", "n", "y", "s", "e", "a", "r", "c", "h">>
COMPANY_PROFILE_PATH_PREFIX == <<"/", "c", "o", "m", "p", "a", "n", "y", "/">>
MAX_PAGE_NUMBER == 31
ALLOWED_DOMAINS ==
    { <<"h", "i", "b", "i", "d", ".", "c", "o", "m">>,
      <<"w", "w", "w", ".", "h", "i", "b", "i", "d", ".", "c", "o", "m">> }

HttpPrefix == <<"h", "t", "t", "p", ":", "/", "/">>
HttpsPrefix == <<"h", "t", "t", "p", "s", ":", "/", "/">>

-----------------------------------------------------------------------------
(* urllib.parse.urlparse, as far as the code reads its result *)

\* the scheme split of urlsplit: <<scheme, rest>>
SplitScheme(url) ==
    LET i == Find(url, ":")
    IN IF /\ i > 1
          /\ IsAlpha(url[1])
          /\ \A j \in 1..(i - 1) : IsAlpha(url[j]) \/ IsDigit(url[j]) \/ url[j] \in {"+", "-", "."}
       THEN <<Lower(Take(url, i - 1)), Drop(url, i)>>
       ELSE <<(<<>>), url>>

\* _splitparams: the parameters of the last path segment
SplitParams(url) ==
    LET slash == RFind(url, "/")
        i == IF slash > 0 THEN FindFrom(url, ";", slash) ELSE Find(url, ";")
    IN IF i = 0 THEN <<url, (<<>>)>> ELSE <<Take(url, i - 1), Drop(url, i)>>

\* urlparse(url): a record of the six components, or Raised("ValueError")
urlparse(raw_url) ==
    LET \* _splitparams for the schemes that use parameters, then the result
        Components(scheme, netloc, noQuery, query, fragment) ==
            LET usesParams == scheme \in {<<"h", "t", "t", "p">>, <<"h", "t", "t", "p", "s">>,
                                          <<"f", "t", "p">>, (<<>>)}
                pp == IF usesParams /\ Contains(noQuery, ";")
                      THEN SplitParams(noQuery) ELSE <<noQuery, (<<>>)>>
            IN IF Contains(netloc, "[") # Contains(netloc, "]")
               THEN Raised("ValueError")
               ELSE [tag |-> "parsed", scheme |-> scheme, netloc |-> netloc, path |-> pp[1],
                     params |-> pp[2], query |-> query, fragment |-> fragment]
        \* the query is what follows the first "?"
        SplitQuery(scheme, netloc, noFrag, fragment) ==
            LET q == Find(noFrag, "?")
            IN Components(scheme, netloc, IF q = 0 THEN noFrag ELSE Take(noFrag, q - 1),
                          IF q = 0 THEN <<>> ELSE Drop(noFrag, q), fragment)
        \* the fragment is what follows the first "#"
        SplitFragment(scheme, netloc, afterNetloc) ==
            LET h == Find(afterNetloc, "#")
            IN SplitQuery(scheme, netloc, IF h = 0 THEN afterNetloc ELSE Take(afterNetloc, h - 1),
                          IF h = 0 THEN <<>> ELSE Drop(afterNetloc, h))
        \* the netloc follows "//" and ends before the first of "/", "?", "#"
        SplitNetloc(scheme, rest) ==
            LET hasNetloc == StartsWith(rest, <<"/", "/">>)
                delim == FindAny(rest, {"/", "?", "#"}, 3)
            IN SplitFragment(scheme, IF hasNetloc THEN SubSeq(rest, 3, delim - 1) ELSE <<>>,
                             IF hasNetloc THEN Drop(rest, delim - 1) ELSE rest)
        SplitUrl(ss) == SplitNetloc(ss[1], ss[2])
    IN SplitUrl(SplitScheme(SelectSeq(raw_url, LAMBDA c : c \notin {"\t", "\r", "\n"})))

\* ParseResult.hostname: the host part of netloc, lower-cased, None when empty
Hostname(netloc) ==
    LET \* the host ends at "]" when bracketed, before the first ":" otherwise
        HostOf(hostinfo, br) ==
            LET bracketed == Drop(hostinfo, br)
                close == Find(bracketed, "]")
                colon == Find(hostinfo, ":")
            IN IF br > 0
               THEN (IF close = 0 THEN bracketed ELSE Take(bracketed, close - 1))
               ELSE (IF colon = 0 THEN hostinfo ELSE Take(hostinfo, colon - 1))
        Host(hostinfo) == HostOf(hostinfo, Find(hostinfo, "["))
        Value(host) == IF host = <<>> THEN NoneV ELSE StrV(Lower(host))
    IN Value(Host(Drop(netloc, RFind(netloc, "@"))))

-----------------------------------------------------------------------------
(* api/_lib/security.py *)

\* what ipaddress says of one resolved address
AddrClasses == {"public", "private", "loopback", "reserved", "link_local"}

\* one answer of socket.getaddrinfo: a failure, or a non-empty list of addresses
DnsAnswers ==
    {[tag |-> "fail"]} \cup
    {[tag |-> "addrs", addrs |-> a] :
        a \in UNION {[1..n -> AddrClasses] : n \in 1..MaxAddrs}}

LoopbackNames ==
    { <<"l", "o", "c", "a", "l", "h", "o", "s", "t">>,
      <<"1", "2", "7", ".", "0", ".", "0", ".", "1">>,
      <<":", ":", "1">>,
      <<"0", ".", "0", ".", "0", ".", "0">> }

\* whether _is_private_host consults the resolver for this hostname
NeedsLookup(hostname) == hostname \notin LoopbackNames

\* the loop over addr_info: true at the first address that is not public
AnyBlockedAddr(addrs) ==
    \E i \in 1..Len(addrs) : addrs[i] \in {"private", "loopback", "reserved", "link_local"}

\* _is_private_host(hostname), the resolver answering ans
\* a variant that lets a host through when resolution fails
IsPrivateHostMutFailOpen(hostname, ans) ==
    IF ~NeedsLookup(hostname) THEN TRUE
    ELSE IF ans.tag = "fail" THEN FALSE
    ELSE AnyBlockedAddr(ans.addrs)

IsPrivateHost(hostname, ans) ==
    IF ~NeedsLookup(hostname) THEN TRUE
    ELSE IF ans.tag = "fail" THEN TRUE
    ELSE AnyBlockedAddr(ans.addrs)

\* lines 29-40: the input as a full URL, NoneV when it is rejected outright
\* a variant that rewrites any scheme to https instead of refusing it
FullUrlMutForceHttps(raw) ==
    IF raw.tag # "str" \/ raw.val = <<>> THEN NoneV
    ELSE LET s == Strip(raw.val)
             sp == SplitScheme(s)
         IN IF StartsWith(s, COMPANY_PROFILE_PATH_PREFIX) THEN StrV(HIBID_BASE_URL \o s)
            ELSE IF sp[1] # <<>> /\ StartsWith(sp[2], <<"/", "/">>)
                 THEN StrV(<<"h", "t", "t", "p", "s", ":">> \o sp[2])
            ELSE NoneV

FullUrl(raw) ==
    IF raw.tag # "str" \/ raw.val = <<>> THEN NoneV
    ELSE LET s == Strip(raw.val)
         IN IF StartsWith(s, COMPANY_PROFILE_PATH_PREFIX) THEN StrV(HIBID_BASE_URL \o s)
            ELSE IF StartsWith(s, HttpPrefix) \/ StartsWith(s, HttpsPrefix) THEN StrV(s)
            ELSE NoneV

\* lines 55-56: the allow-list test on the lower-cased hostname
HostAllowed(hostname_lower) == hostname_lower \in ALLOWED_DOMAINS

\* lines 58-71: the path is a company profile path with an integer second segment
PathOk(path) ==
    /\ StartsWith(path, COMPANY_PROFILE_PATH_PREFIX)
    /\ LET path_parts == Split(StripSet(path, {"/"}), "/")
       IN Len(path_parts) >= 2 /\ PyInt(path_parts[2]).tag = "int"

\* lines 77-79: the URL handed back
\* a variant that keeps the query string
CleanUrlMutKeepQuery(parsed, hostname_lower) ==
    HttpsPrefix \o hostname_lower \o parsed.path
        \o (IF parsed.query = <<>> THEN <<>> ELSE <<"?">> \o parsed.query)

\* a variant that keeps the input's scheme
CleanUrlMutKeepScheme(parsed, hostname_lower) ==
    parsed.scheme \o <<":", "/", "/">> \o hostname_lower \o parsed.path

CleanUrl(parsed, hostname_lower) == HttpsPrefix \o hostname_lower \o parsed.path

\* validate_url(raw_url) with the resolver answering ans: the value returned
\* (NoneV, a URL, or the ValueError urlparse raises) and the lookups it issued
ValidateRun(raw, ans) ==
    LET none == [result |-> NoneV, lookups |-> <<>>]
        \* lines 54-79: allow-list, path, resolver, the URL handed back
        Checked(parsed, hostname_lower) ==
            IF ~HostAllowed(hostname_lower) THEN none
            ELSE IF ~PathOk(parsed.path) THEN none
            ELSE LET asked == IF NeedsLookup(hostname_lower)
                              THEN <<[host |-> hostname_lower, answer |-> ans]>> ELSE <<>>
                 IN IF IsPrivateHost(hostname_lower, ans)
                    THEN [result |-> NoneV, lookups |-> asked]
                    ELSE [result |-> StrV(CleanUrl(parsed, hostname_lower)), lookups |-> asked]
        \* lines 50-52: the hostname
        WithHost(parsed, hostname) ==
            IF ~Truthy(hostname) THEN none ELSE Checked(parsed, Lower(hostname.val))
        \* lines 43-47: urlparse and the scheme
        Parsed(parsed) ==
            IF parsed.tag = "raise" THEN [result |-> parsed, lookups |-> <<>>]
            ELSE IF parsed.scheme \notin {<<"h", "t", "t", "p">>, <<"h", "t", "t", "p", "s">>}
                 THEN none
            ELSE WithHost(parsed, Hostname(parsed.netloc))
        \* lines 29-40: the input as a full URL
        Full(full) == IF full.tag = "none" THEN none ELSE Parsed(urlparse(full.val))
    IN Full(FullUrl(raw))

-----------------------------------------------------------------------------
(* Inputs of validate_url: the parts an untrusted URL is assembled from *)

Cat2(A, B) == {a \o b : a \in A, b \in B}

\* "", "?q"  and  "", "#f"
Queries == { (<<>>),
      (<<"?", "q">>) }
Fragments == { (<<>>),
      (<<"#", "f">>) }

\* hibid.com, www.hibid.com, HiBid.COM, evil.com, a.hibid.com,
\* hibid.com.evil.com, localhost, 127.0.0.1, "[hibid.com", ""
Hosts ==
    { (<<"h", "i", "b", "i", "d", ".", "c", "o", "m">>),
      (<<"w", "w", "w", ".", "h", "i", "b", "i", "d", ".", "c", "o", "m">>),
      (<<"H", "i", "B", "i", "d", ".", "C", "O", "M">>),
      (<<"e", "v", "i", "l", ".", "c", "o", "m">>),
      (<<"a", ".", "h", "i", "b", "i", "d", ".", "c", "o", "m">>),
      (<<"h", "i", "b", "i", "d", ".", "c", "o", "m", ".", "e", "v", "i", "l", ".", "c", "o", "m">>),
      (<<"l", "o", "c", "a", "l", "h", "o", "s", "t">>),
      (<<"1", "2", "7", ".", "0", ".", "0", ".", "1">>),
      (<<"[", "h", "i", "b", "i", "d", ".", "c", "o", "m">>),
      (<<>>) }

\* /company/12/x, /company/0/x, /company/133721, /company/12/x;p,
\* /company/-3/x, /company/1_2/, /company/7/../y, /company/12/a b,
\* /company/12/a<TAB>b
GoodPaths ==
    { (<<"/", "c", "o", "m", "p", "a", "n", "y", "/", "1", "2", "/", "x">>),
      (<<"/", "c", "o", "m", "p", "a", "n", "y", "/", "0", "/", "x">>),
      (<<"/", "c", "o", "m", "p", "a", "n", "y", "/", "1", "3", "3", "7", "2", "1">>),
      (<<"/", "c", "o", "m", "p", "a", "n", "y", "/", "1", "2", "/", "x", ";", "p">>),
      (<<"/", "c", "o", "m", "p", "a", "n", "y", "/", "-", "3", "/", "x">>),
      (<<"/", "c", "o", "m", "p", "a", "n", "y", "/", "1", "_", "2", "/">>),
      (<<"/", "c", "o", "m", "p", "a", "n", "y", "/", "7", "/", ".", ".", "/", "y">>),
      (<<"/", "c", "o", "m", "p", "a", "n", "y", "/", "1", "2", "/", "a", " ", "b">>),
      (<<"/", "c", "o", "m", "p", "a", "n", "y", "/", "1", "2", "/", "a", "\t", "b">>) }

\* /admin/secret, /company/abc/1, /company/, /company//12, /Company/12/x,
\* company/12/x, "", /company/1.5/x, //evil.com/company/1/x
BadPaths ==
    { (<<"/", "a", "d", "m", "i", "n", "/", "s", "e", "c", "r", "e", "t">>),
      (<<"/", "c", "o", "m", "p", "a", "n", "y", "/", "a", "b", "c", "/", "1">>),
      (<<"/", "c", "o", "m", "p", "a", "n", "y", "/">>),
      (<<"/", "c", "o", "m", "p", "a", "n", "y", "/", "/", "1", "2">>),
      (<<"/", "C", "o", "m", "p", "a", "n", "y", "/", "1", "2", "/", "x">>),
      (<<"c", "o", "m", "p", "a", "n", "y", "/", "1", "2", "/", "x">>),
      (<<>>),
      (<<"/", "c", "o", "m", "p", "a", "n", "y", "/", "1", ".", "5", "/", "x">>),
      (<<"/", "/", "e", "v", "i", "l", ".", "c", "o", "m", "/", "c", "o", "m", "p", "a", "n", "y", "/", "1", "/", "x">>) }

\* "" and "?q#f"
Tails == { (<<>>), (<<"?", "q", "#", "f">>) }

\* relative inputs: a path, optionally with a query and a fragment, and three
\* with surrounding blanks: "/company/12/x ", " /company/12/x " and
\* " /company/12/x?q #f "
RelativeInputs ==
    Cat2((GoodPaths \cup BadPaths), Cat2(Queries, Fragments))
    \cup { (<<"/", "c", "o", "m", "p", "a", "n", "y", "/", "1", "2", "/", "x", " ">>),
           (<<" ", "/", "c", "o", "m", "p", "a", "n", "y", "/", "1", "2", "/", "x", " ">>),
           (<<" ", "/", "c", "o", "m", "p", "a", "n", "y", "/", "1", "2", "/", "x", "?", "q", " ", "#", "f", " ">>) }

\* absolute inputs varying the authority, on one good path
AuthorityInputs ==
    LET schemes == {<<"h", "t", "t", "p", ":", "/", "/">>, <<"h", "t", "t", "p", "s", ":", "/", "/">>}
        \* "", "u@", "hibid.com@"
        userinfos == {<<>>, <<"u", "@">>, <<"h", "i", "b", "i", "d", ".", "c", "o", "m", "@">>}
        port == {<<":", "8">>}
        \* a host alone, with a port, with userinfo, with both
        authorities == Hosts \cup Cat2(Hosts, port) \cup Cat2(userinfos, Hosts)
                             \cup Cat2({<<"u", "@">>}, Cat2(Hosts, port))
    IN Cat2(schemes, Cat2(authorities,
            Cat2({<<"/", "c", "o", "m", "p", "a", "n", "y", "/", "1", "2", "/", "x">>}, Tails)))

\* absolute inputs varying the path, on an allowed host in either letter case
PathInputs ==
    Cat2({HttpsPrefix}, Cat2({<<"w", "w", "w", ".", "h", "i", "b", "i", "d", ".", "c", "o", "m">>, <<"H", "I", "B", "I", "D", ".", "c", "o", "m">>},
        Cat2((GoodPaths \cup BadPaths), Tails)))
    \cup Cat2({HttpsPrefix}, Cat2({<<"h", "i", "b", "i", "d", ".", "c", "o", "m">>},
        Cat2(GoodPaths, Cat2(Queries, Fragments))))

\* inputs whose scheme is not http or https
SchemeInputs ==
    LET \* ftp://, HTTPS://, file://, and no scheme at all
        schemes == {<<"f", "t", "p", ":", "/", "/">>, <<"H", "T", "T", "P", "S", ":", "/", "/">>,
                    <<"f", "i", "l", "e", ":", "/", "/">>, <<"/", "/">>}
    IN Cat2(schemes, Cat2({<<"h", "i", "b", "i", "d", ".", "c", "o", "m">>}, Cat2(GoodPaths, Queries)))

\* validate_url's arguments: None, a non-string, "", and the URLs above
ValidateInputs ==
    {NoneV, IntV(5), StrV(<<>>)} \cup
    {StrV(u) : u \in RelativeInputs \cup AuthorityInputs \cup PathInputs \cup SchemeInputs}

-----------------------------------------------------------------------------
(* api/_lib/scraper.py: utility functions *)

AUCTIONEER_REF_PREFIX == <<"A", "u", "c", "t", "i", "o", "n", "e", "e", "r", ":">>

\* "sub in s"
Substring(s, sub) ==
    \E i \in 1..(Len(s) - Len(sub) + 1) : SubSeq(s, i, i + Len(sub) - 1) = sub

\* sep.join(parts)
RECURSIVE Join(_, _)
Join(parts, sep) ==
    IF parts = <<>> THEN <<>>
    ELSE IF Len(parts) = 1 THEN parts[1]
    ELSE parts[1] \o sep \o Join(Tail(parts), sep)

IsSlugChar(c) ==
    \/ \E i \in 1..26 : LowerLetters[i] = c
    \/ IsDigit(c)
    \/ c \in Whitespace
    \/ c = "-"

\* re.sub(r"[\s]+", "-", s): every run of whitespace becomes one hyphen
RECURSIVE SpacesToHyphen(_)
SpacesToHyphen(s) ==
    IF s = <<>> THEN <<>>
    ELSE IF s[1] \in Whitespace
         THEN (IF Len(s) > 1 /\ s[2] \in Whitespace THEN <<>> ELSE <<"-">>)
              \o SpacesToHyphen(Tail(s))
         ELSE <<s[1]>> \o SpacesToHyphen(Tail(s))

\* re.sub(r"-+", "-", s): every run of hyphens becomes one hyphen
RECURSIVE CollapseHyphens(_)
CollapseHyphens(s) ==
    IF s = <<>> THEN <<>>
    ELSE IF s[1] = "-" /\ Len(s) > 1 /\ s[2] = "-" THEN CollapseHyphens(Tail(s))
    ELSE <<s[1]>> \o CollapseHyphens(Tail(s))

\* _make_slug(name)
\* a variant that leaves runs of hyphens as they are
make_slugMutNoCollapse(name) ==
    StripSet(SpacesToHyphen(SelectSeq(Strip(Lower(name)), IsSlugChar)), {"-"})

make_slug(name) ==
    LET a == Strip(Lower(name))
        b == SelectSeq(a, IsSlugChar)
        c == SpacesToHyphen(b)
        d == CollapseHyphens(c)
    IN StripSet(d, {"-"})

\* _extract_company_id_from_path(path): IntV(id) or NoneV
extract_company_id_from_path(path) ==
    LET parts == Split(StripSet(path, {"/"}), "/")
    IN IF Len(parts) >= 2 /\ PyInt(parts[2]).tag = "int" THEN PyInt(parts[2]) ELSE NoneV

\* _extract_company_id_from_url(url)
extract_company_id_from_url(url) == extract_company_id_from_path(urlparse(url).path)

-----------------------------------------------------------------------------
(* api/_lib/scraper.py: entity formatter *)

\* a key a JSON object does not have
Missing == [tag |-> "missing"]

\* dict.get(f, default)
Get(d, f, default) == IF d[f].tag = "missing" THEN default ELSE d[f]

\* (d.get(f, "") or ""), for string-valued fields
GetOrEmpty(d, f) == LET v == Get(d, f, StrV(<<>>)) IN IF Truthy(v) THEN v.val ELSE <<>>

\* str(v) for an id value
IdToChars(v) ==
    CASE v.tag = "int" -> IntToChars(v.val)
      [] v.tag = "none" -> <<"N", "o", "n", "e">>
      [] OTHER -> v.val

NonBlank(p) == Strip(p) # <<>>

\* _format_auctioneer(auctioneer)
format_auctioneer(auctioneer) ==
    LET company_id == Get(auctioneer, "id", StrV(<<>>))
        name == Get(auctioneer, "name", StrV(<<>>)).val
        city == GetOrEmpty(auctioneer, "city")
        state == GetOrEmpty(auctioneer, "state")
        country == GetOrEmpty(auctioneer, "country")
        location == Join(SelectSeq(<<city, state, country>>, NonBlank), <<",", " ">>)
    IN [company_id |-> company_id,
        name |-> name,
        location |-> location,
        address |-> GetOrEmpty(auctioneer, "address"),
        city |-> city,
        state |-> state,
        postal_code |-> GetOrEmpty(auctioneer, "postalCode"),
        country |-> country,
        profile_url |-> HIBID_BASE_URL \o COMPANY_PROFILE_PATH_PREFIX
                        \o IdToChars(company_id) \o <<"/">> \o make_slug(name)]

\* _format_auctioneer_detail(auctioneer, profile_url)
format_auctioneer_detail(auctioneer, profile_url) ==
    LET \* base.update({...}), then the profile_url override
        Update(base) ==
            [company_id |-> base.company_id, name |-> base.name, location |-> base.location,
             address |-> base.address, city |-> base.city, state |-> base.state,
             postal_code |-> base.postal_code, country |-> base.country,
             phone |-> GetOrEmpty(auctioneer, "phone"),
             email |-> GetOrEmpty(auctioneer, "email"),
             website |-> GetOrEmpty(auctioneer, "internetAddress"),
             fax |-> GetOrEmpty(auctioneer, "fax"),
             profile_url |-> IF profile_url # <<>> THEN profile_url ELSE base.profile_url]
    IN Update(format_auctioneer(auctioneer))

-----------------------------------------------------------------------------
(* api/_lib/scraper.py: embedded (Apollo) state extraction *)

\* A page is a record
\*   script  : "missing" (no <script id="hibid-state">), "empty" (no text in it),
\*             "bad_json" (json.loads fails), "no_key" (an object without the
\*             "apollo.state" key), or "state"
\*   entries : the state's entries other than ROOT_QUERY, in insertion order,
\*             each [key, isdict, val]
\*   root    : [present, items], the items of ROOT_QUERY in insertion order
\*   table   : [present, rows], the <tr> rows of <table id="companySearch">
\*   h1, div : the detail page's heading and .auctioneer-details container
\* The decoded JSON is well typed: where the code expects an object, a list or
\* a string and the key is present and not null, it finds one.

\* _extract_apollo_state(soup): the state mapping, or NoneV
extract_apollo_state(page) ==
    IF page.script = "state"
    THEN [tag |-> "state", entries |-> page.entries, root |-> page.root]
    ELSE NoneV

\* "not apollo_state": None or an empty mapping
StateFalsy(st) == st.tag = "none" \/ (st.entries = <<>> /\ ~st.root.present)

\* auctioneers[company_id] = value: overwrite in place, or insert at the end
PutAuctioneer(acc, id, v) ==
    IF \E i \in 1..Len(acc) : acc[i].id = id
    THEN [i \in 1..Len(acc) |-> IF acc[i].id = id THEN [id |-> id, val |-> v] ELSE acc[i]]
    ELSE Append(acc, [id |-> id, val |-> v])

\* line 101, "if company_id:"
IdCollected(company_id) == Truthy(company_id)

RECURSIVE CollectAuctioneers(_, _)
CollectAuctioneers(entries, acc) ==
    IF entries = <<>> THEN acc
    ELSE LET e == entries[1]
             company_id == Get(e.val, "id", NoneV)
         IN IF StartsWith(e.key, AUCTIONEER_REF_PREFIX) /\ e.isdict /\ IdCollected(company_id)
            THEN CollectAuctioneers(Tail(entries), PutAuctioneer(acc, company_id.val, e.val))
            ELSE CollectAuctioneers(Tail(entries), acc)

\* _extract_auctioneers_from_apollo(apollo_state): the id -> record mapping, as
\* the sequence of its items in dict order
extract_auctioneers_from_apollo(st) == CollectAuctioneers(st.entries, <<>>)

\* auctioneers.get(aid)
AuctioneerGet(auctioneers, aid) ==
    IF \E i \in 1..Len(auctioneers) : auctioneers[i].id = aid
    THEN [tag |-> "value",
          val |-> (auctioneers[CHOOSE i \in 1..Len(auctioneers) : auctioneers[i].id = aid]).val]
    ELSE NoneV

SearchMarker == <<"a", "u", "c", "t", "i", "o", "n", "e", "e", "r", "S", "e", "a", "r", "c", "h">>

\* the first ROOT_QUERY item whose key holds the search marker and whose value
\* is a mapping (the loop breaks there); 0 when there is none
FirstSearchItem(items) ==
    IF \E i \in 1..Len(items) : Substring(items[i].key, SearchMarker) /\ items[i].isdict
    THEN CHOOSE i \in 1..Len(items) :
            /\ Substring(items[i].key, SearchMarker) /\ items[i].isdict
            /\ \A j \in 1..(i - 1) : ~(Substring(items[j].key, SearchMarker) /\ items[j].isdict)
    ELSE 0

\* lines 204-212: the ids the results list names, unparseable references skipped
RECURSIVE OrderedIds(_)
OrderedIds(results) ==
    IF results = <<>> THEN <<>>
    ELSE LET ref == results[1]
             parts == Split(ref.key, ":")
             aid == IF Len(parts) >= 2 THEN PyInt(parts[2]) ELSE Raised("IndexError")
         IN (IF ref.kind = "ref" /\ aid.tag = "int" THEN <<aid.val>> ELSE <<>>)
            \o OrderedIds(Tail(results))

\* lines 216-221: resolve each id, dropping those with no entity
RECURSIVE ResolveOrdered(_, _)
ResolveOrdered(ordered_ids, auctioneers) ==
    IF ordered_ids = <<>> THEN <<>>
    ELSE LET a == AuctioneerGet(auctioneers, ordered_ids[1])
         IN (IF a.tag # "none" THEN <<format_auctioneer(a.val)>> ELSE <<>>)
            \o ResolveOrdered(Tail(ordered_ids), auctioneers)

\* lines 184-229 of fetch_company_list_from_apollo_state, after the fetch:
\* NoneV, or [companies, total_count]
ListFromState(page) ==
    LET st == extract_apollo_state(page)
        auctioneers == extract_auctioneers_from_apollo(st)
        k == FirstSearchItem(st.root.items)
        ordered_ids == IF k = 0 THEN <<>> ELSE OrderedIds(st.root.items[k].results)
    IN IF StateFalsy(st) THEN NoneV
       ELSE IF auctioneers = <<>> THEN NoneV
       ELSE [tag |-> "result",
             companies |->
                IF ordered_ids # <<>>
                THEN ResolveOrdered(ordered_ids, auctioneers)
                ELSE [i \in 1..Len(auctioneers) |-> format_auctioneer(auctioneers[i].val)],
             total_count |-> IF k = 0 THEN NoneV
                             ELSE Get(st.root.items[k], "totalCount", NoneV)]

-----------------------------------------------------------------------------
(* api/_lib/scraper.py: HTML table list extraction *)

\* a variant that keeps every row with an anchor, repeated hrefs included
RECURSIVE TableRowsMutNoDedup(_, _)
TableRowsMutNoDedup(rows, seen_urls) ==
    IF rows = <<>> THEN <<>>
    ELSE LET row == rows[1]
         IN IF row.ntds < 2 \/ ~row.anchor
            THEN TableRowsMutNoDedup(Tail(rows), seen_urls)
            ELSE <<[company_id |-> extract_company_id_from_path(row.href),
                    name |-> row.name,
                    location |-> row.location,
                    profile_url |-> IF StartsWith(row.href, <<"/">>)
                                    THEN HIBID_BASE_URL \o row.href ELSE row.href]>>
                 \o TableRowsMutNoDedup(Tail(rows), seen_urls)

\* lines 255-285: the loop over the rows after the header; a row is
\* [ntds, anchor, href, name, location]
RECURSIVE TableRows(_, _)
TableRows(rows, seen_urls) ==
    IF rows = <<>> THEN <<>>
    ELSE LET row == rows[1]
         IN IF row.ntds < 2 \/ ~row.anchor \/ row.href \in seen_urls
            THEN TableRows(Tail(rows), seen_urls)
            ELSE <<[company_id |-> extract_company_id_from_path(row.href),
                    name |-> row.name,
                    location |-> row.location,
                    profile_url |-> IF StartsWith(row.href, <<"/">>)
                                    THEN HIBID_BASE_URL \o row.href ELSE row.href]>>
                 \o TableRows(Tail(rows), seen_urls \cup {row.href})

\* lines 245-287 of fetch_company_list_from_html, after the fetch
ListFromHtml(page) ==
    IF ~page.table.present THEN NoneV
    ELSE [tag |-> "result",
          companies |-> IF page.table.rows = <<>> THEN <<>>
                        ELSE TableRows(Tail(page.table.rows), {})]

-----------------------------------------------------------------------------
(* api/_lib/scraper.py: company details extraction *)

\* state.get(ref): the value stored under a key, NoneV when there is none
StateGet(entries, key) ==
    IF \E i \in 1..Len(entries) : entries[i].key = key
    THEN LET e == entries[CHOOSE i \in 1..Len(entries) : entries[i].key = key]
         IN [tag |-> "value", isdict |-> e.isdict, val |-> e.val]
    ELSE NoneV

\* lines 341-359: the scan of the state's entries for the target
RECURSIVE ScanEntries(_, _, _)
ScanEntries(entries, target_id, url) ==
    IF entries = <<>> THEN NoneV
    ELSE LET e == entries[1]
             auc_id == Get(e.val, "id", NoneV)
         IN IF ~StartsWith(e.key, AUCTIONEER_REF_PREFIX) \/ ~e.isdict
            THEN ScanEntries(Tail(entries), target_id, url)
            ELSE IF Truthy(target_id) /\ auc_id = target_id
            THEN format_auctioneer_detail(e.val, url)
            ELSE IF /\ ~Truthy(target_id)
                    /\ (Truthy(Get(e.val, "phone", NoneV)) \/ Truthy(Get(e.val, "email", NoneV)))
            THEN format_auctioneer_detail(e.val, url)
            ELSE ScanEntries(Tail(entries), target_id, url)

AuctioneerMarker == <<"a", "u", "c", "t", "i", "o", "n", "e", "e", "r">>

\* lines 362-369: the scan of ROOT_QUERY for a single reference
RECURSIVE ScanRoot(_, _, _)
ScanRoot(items, entries, url) ==
    IF items = <<>> THEN NoneV
    ELSE LET it == items[1]
             ref == Get(it, "ref", StrV(<<>>)).val
             auctioneer == StateGet(entries, ref)
         IN IF /\ Substring(Lower(it.key), AuctioneerMarker) /\ it.isdict
               /\ StartsWith(ref, AUCTIONEER_REF_PREFIX)
               /\ auctioneer.tag # "none" /\ auctioneer.isdict
            THEN format_auctioneer_detail(auctioneer.val, url)
            ELSE ScanRoot(Tail(items), entries, url)

\* _extract_details_from_apollo(soup, url): the detail record, or NoneV
extract_details_from_apollo(page, url) ==
    LET st == extract_apollo_state(page)
        \* the entry scan's record if it returned one, else the ROOT_QUERY scan
        OrRoot(hit) == IF hit # NoneV THEN hit ELSE ScanRoot(st.root.items, st.entries, url)
    IN IF StateFalsy(st) THEN NoneV
       ELSE OrRoot(ScanEntries(st.entries, extract_company_id_from_url(url), url))

BrandingWords == <<"l", "i", "v", "e", " ", "a", "n", "d", " ", "o", "n", "l", "i", "n", "e", " ", "a", "u", "c", "t", "i", "o", "n", "s">>

\* whether r"\s*-\s*Live and Online Auctions" (ignoring case) matches at i
BrandingAt(text, i) ==
    \E j \in i..Len(text) : \E k \in (j + 1)..(Len(text) + 1) :
        /\ \A n \in i..(j - 1) : text[n] \in Whitespace
        /\ text[j] = "-"
        /\ \A n \in (j + 1)..(k - 1) : text[n] \in Whitespace
        /\ Lower(SubSeq(text, k, k + Len(BrandingWords) - 1)) = BrandingWords

\* re.sub(r"\s*-\s*Live and Online Auctions.*$", "", name, flags=re.IGNORECASE)
StripBranding(text) ==
    IF \E i \in 1..Len(text) : BrandingAt(text, i)
    THEN Take(text, (CHOOSE i \in 1..Len(text) :
                        BrandingAt(text, i) /\ \A j \in 1..(i - 1) : ~BrandingAt(text, j)) - 1)
    ELSE text

\* the text of the first link of the container whose href starts with prefix
FirstLinkText(links, prefix) ==
    IF \E i \in 1..Len(links) : StartsWith(links[i].href, prefix)
    THEN links[CHOOSE i \in 1..Len(links) :
                  /\ StartsWith(links[i].href, prefix)
                  /\ \A j \in 1..(i - 1) : ~StartsWith(links[j].href, prefix)].text
    ELSE <<>>

EndsWith(s, suffix) ==
    Len(s) >= Len(suffix) /\ SubSeq(s, Len(s) - Len(suffix) + 1, Len(s)) = suffix

\* lines 414-419: whether a link of the container is taken as the website
IsWebsiteLink(l) ==
    /\ l.href # <<>>
    /\ ~StartsWith(l.href, <<"t", "e", "l", ":">>) /\ ~StartsWith(l.href, <<"m", "a", "i", "l", "t", "o", ":">>)
    /\ ~StartsWith(l.href, <<"h", "t", "t", "p", "s", ":", "/", "/", "m", "a", "p", "s", ".", "g", "o", "o", "g", "l", "e">>)
    /\ (Substring(l.href, <<"h", "i", "b", "i", "d", ".", "c", "o", "m">>) \/ EndsWith(l.text, <<".", "c", "o", "m">>))

IsMapLink(l) == Substring(l.href, <<"m", "a", "p", "s", ".", "g", "o", "o", "g", "l", "e">>)

FirstText(links) == IF links = <<>> THEN <<>> ELSE links[1].text

\* _extract_details_from_html(soup, url): the detail record, or NoneV;
\* page.h1 is NoneV or the heading's text, page.div is NoneV or the links of
\* the .auctioneer-details container, each [href, text]
extract_details_from_html(page, url) ==
    LET name == IF page.h1.tag = "none" THEN <<>> ELSE StripBranding(Strip(page.h1.val))
        links == IF page.div.tag = "none" THEN <<>> ELSE page.div.links
        address == FirstText(SelectSeq(links, IsMapLink))
    IN IF page.div.tag = "none" /\ name = <<>> THEN NoneV
       ELSE [company_id |-> extract_company_id_from_url(url),
             name |-> name,
             location |-> address,
             address |-> address,
             city |-> <<>>, state |-> <<>>, postal_code |-> <<>>, country |-> <<>>,
             phone |-> FirstLinkText(links, <<"t", "e", "l", ":">>),
             email |-> FirstLinkText(links, <<"m", "a", "i", "l", "t", "o", ":">>),
             website |-> FirstText(SelectSeq(links, IsWebsiteLink)),
             fax |-> <<>>,
             profile_url |-> url]

\* lines 311-323 of fetch_company_details, after the fetch
DetailsFromPage(page, url) ==
    LET OrHtml(details) ==
            IF details # NoneV THEN details ELSE extract_details_from_html(page, url)
    IN OrHtml(extract_details_from_apollo(page, url))

-----------------------------------------------------------------------------
(* Pages the site may answer with *)

\* the sequences over S of length at most n
SeqsUpTo(S, n) == UNION {[1..k -> S] : k \in 0..n}

\* those without repetition
DistinctSeqs(S, n) ==
    {q \in SeqsUpTo(S, n) : \A i, j \in 1..Len(q) : i # j => q[i] # q[j]}

\* entries of the state: "Auctioneer:12" with full contact data
EntA12 ==
    [key |-> <<"A", "u", "c", "t", "i", "o", "n", "e", "e", "r", ":", "1", "2">>, isdict |-> TRUE,
     val |-> [id |-> IntV(12),
             name |-> StrV(<<"A", "c", "m", "e", " ", " ", "C", "o", ".">>),
             city |-> StrV(<<"R", "e", "n", "o">>),
             state |-> StrV(<<"N", "V">>),
             postalCode |-> StrV(<<"8", "9", "5", "0", "1">>),
             country |-> StrV(<<"U", "S", "A">>),
             address |-> StrV(<<"1", " ", "M", "a", "i", "n">>),
             phone |-> StrV(<<"5", "5", "5">>),
             email |-> StrV(<<"a", "@", "x", ".", "i", "o">>),
             internetAddress |-> StrV(<<"a", "c", "m", "e", ".", "c", "o", "m">>),
             fax |-> NoneV]]

\* "Auctioneer:7": no contact fields, null city, blank state
EntA7 ==
    [key |-> <<"A", "u", "c", "t", "i", "o", "n", "e", "e", "r", ":", "7">>, isdict |-> TRUE,
     val |-> [id |-> IntV(7),
             name |-> StrV(<<"B", "-", "7">>),
             city |-> NoneV,
             state |-> StrV(<<" ">>),
             postalCode |-> Missing,
             country |-> StrV(<<"U", "S">>),
             address |-> Missing,
             phone |-> Missing,
             email |-> NoneV,
             internetAddress |-> Missing,
             fax |-> Missing]]

\* "Auctioneer:0": id 0, with a phone
EntA0 ==
    [key |-> <<"A", "u", "c", "t", "i", "o", "n", "e", "e", "r", ":", "0">>, isdict |-> TRUE,
     val |-> [id |-> IntV(0),
             name |-> StrV(<<"Z", "e", "r", "o">>),
             city |-> Missing,
             state |-> Missing,
             postalCode |-> Missing,
             country |-> Missing,
             address |-> Missing,
             phone |-> StrV(<<"0", "0", "0">>),
             email |-> Missing,
             internetAddress |-> Missing,
             fax |-> Missing]]

\* "Auctioneer:012": a second entity carrying id 12, with an email
EntD12 ==
    [key |-> <<"A", "u", "c", "t", "i", "o", "n", "e", "e", "r", ":", "0", "1", "2">>, isdict |-> TRUE,
     val |-> [id |-> IntV(12),
             name |-> StrV(<<"D", "u", "p">>),
             city |-> Missing,
             state |-> Missing,
             postalCode |-> Missing,
             country |-> Missing,
             address |-> Missing,
             phone |-> Missing,
             email |-> StrV(<<"d", "@", "x", ".", "i", "o">>),
             internetAddress |-> Missing,
             fax |-> Missing]]

\* "Auctioneer:3": null id, with a phone
EntNull ==
    [key |-> <<"A", "u", "c", "t", "i", "o", "n", "e", "e", "r", ":", "3">>, isdict |-> TRUE,
     val |-> [id |-> NoneV,
             name |-> StrV(<<"N", "o", "I", "d">>),
             city |-> Missing,
             state |-> Missing,
             postalCode |-> Missing,
             country |-> Missing,
             address |-> Missing,
             phone |-> StrV(<<"3", "3", "3">>),
             email |-> Missing,
             internetAddress |-> Missing,
             fax |-> Missing]]

\* "Auctioneer:4": a value that is not a mapping
EntScalar ==
    [key |-> <<"A", "u", "c", "t", "i", "o", "n", "e", "e", "r", ":", "4">>, isdict |-> FALSE, val |-> StrV(<<"x">>)]

\* "Lot:12": an entity of another type carrying id 12, with a phone
EntLot ==
    [key |-> <<"L", "o", "t", ":", "1", "2">>, isdict |-> TRUE,
     val |-> [id |-> IntV(12),
             name |-> StrV(<<"L", "o", "t">>),
             city |-> Missing,
             state |-> Missing,
             postalCode |-> Missing,
             country |-> Missing,
             address |-> Missing,
             phone |-> StrV(<<"9", "9", "9">>),
             email |-> Missing,
             internetAddress |-> Missing,
             fax |-> Missing]]

\* reference objects {"__ref": key}: three that may resolve, one dangling
Ref(key) == [kind |-> "ref", key |-> key]
Refs ==
    { Ref(<<"A", "u", "c", "t", "i", "o", "n", "e", "e", "r", ":", "1", "2">>), Ref(<<"A", "u", "c", "t", "i", "o", "n", "e", "e", "r", ":", "7">>),
      Ref(<<"A", "u", "c", "t", "i", "o", "n", "e", "e", "r", ":", "0">>), Ref(<<"A", "u", "c", "t", "i", "o", "n", "e", "e", "r", ":", "9", "9">>) }

\* ROOT_QUERY items: 'auctioneerSearch({})' -> {totalCount, results}
SearchItem(results) ==
    [key |-> <<"a", "u", "c", "t", "i", "o", "n", "e", "e", "r", "S", "e", "a", "r", "c", "h", "(", "{", "}", ")">>, isdict |-> TRUE,
     totalCount |-> IntV(3025), results |-> results, ref |-> Missing]

\* 'auctioneer(12)' -> {"__ref": key}
SingleItem(key) ==
    [key |-> <<"a", "u", "c", "t", "i", "o", "n", "e", "e", "r", "(", "1", "2", ")">>, isdict |-> TRUE,
     totalCount |-> Missing, results |-> <<>>, ref |-> StrV(key)]

\* 'auctioneerSearchCount' -> a scalar
ScalarItem ==
    [key |-> <<"a", "u", "c", "t", "i", "o", "n", "e", "e", "r", "S", "e", "a", "r", "c", "h", "C", "o", "u", "n", "t">>, isdict |-> FALSE,
     totalCount |-> Missing, results |-> <<>>, ref |-> Missing]

NoRoot == [present |-> FALSE, items |-> <<>>]
Root(items) == [present |-> TRUE, items |-> items]

\* the skeleton of a page: no state script, no table, no heading, no container
BarePage ==
    [script |-> "missing", entries |-> <<>>, root |-> NoRoot,
     table |-> [present |-> FALSE, rows |-> <<>>], h1 |-> NoneV, div |-> NoneV]

StatePage(entries, root) == [BarePage EXCEPT !.script = "state", !.entries = entries, !.root = root]

\* entries of a list page: those whose key and type the collection accepts
ListEntries == {EntA12, EntA7, EntA0, EntD12, EntNull}
\* roots of a list page
ListRoots ==
    {NoRoot, Root(<<>>)}
    \cup {Root(<<SearchItem(r)>>) : r \in SeqsUpTo(Refs, MaxRefs)}
    \cup { Root(<<ScalarItem, SearchItem(<<Ref(<<"A", "u", "c", "t", "i", "o", "n", "e", "e", "r", ":", "7">>)>>)>>),
           Root(<<SearchItem(<<Ref(<<"A", "u", "c", "t", "i", "o", "n", "e", "e", "r", ":", "1", "2">>)>>),
                  [SearchItem(<<Ref(<<"A", "u", "c", "t", "i", "o", "n", "e", "e", "r", ":", "7">>)>>)
                      EXCEPT !.key = <<"a", "u", "c", "t", "i", "o", "n", "e", "e", "r", "S", "e", "a", "r", "c", "h", "(", "2", ")">>]>>),
           Root(<<SingleItem(<<"A", "u", "c", "t", "i", "o", "n", "e", "e", "r", ":", "1", "2">>)>>),
           Root(<<SearchItem(<<Ref(<<"A", "u", "c", "t", "i", "o", "n", "e", "e", "r">>), Ref(<<"A", "u", "c", "t", "i", "o", "n", "e", "e", "r", ":", "x">>),
                               [kind |-> "scalar", key |-> <<>>],
                               Ref(<<"A", "u", "c", "t", "i", "o", "n", "e", "e", "r", ":", "7">>)>>)>>),
           Root(<<SearchItem(<<Ref(<<"L", "o", "t", ":", "7">>),
                               Ref(<<"A", "u", "c", "t", "i", "o", "n", "e", "e", "r", ":", "1", "2">>)>>)>>) }

\* pages the embedded-state list strategy may see
ListStatePages ==
    {[BarePage EXCEPT !.script = k] : k \in {"missing", "empty", "bad_json", "no_key"}}
    \cup {StatePage(e, r) : e \in DistinctSeqs(ListEntries, MaxEntries), r \in ListRoots}
    \cup {StatePage(e, r) : e \in {<<EntLot>>, <<EntLot, EntA7>>, <<EntA12, EntScalar>>},
                            r \in {NoRoot, Root(<<SearchItem(<<Ref(EntA12.key)>>)>>)}}

\* the data rows a table may hold, each [ntds, anchor, href, name, location]
DataRows ==
    {
      \* <td><a href="/company/12/acme">Acme</a></td><td>Reno, NV</td>
      [ntds |-> 2, anchor |-> TRUE, href |-> <<"/", "c", "o", "m", "p", "a", "n", "y", "/", "1", "2", "/", "a", "c", "m", "e">>,
        name |-> <<"A", "c", "m", "e">>, location |-> <<"R", "e", "n", "o", ",", " ", "N", "V">>],
      \* <td><a href="/company/7/b">B</a></td><td></td>
      [ntds |-> 2, anchor |-> TRUE, href |-> <<"/", "c", "o", "m", "p", "a", "n", "y", "/", "7", "/", "b">>,
        name |-> <<"B">>, location |-> <<>>],
      \* a second row with the first row's href
      [ntds |-> 2, anchor |-> TRUE, href |-> <<"/", "c", "o", "m", "p", "a", "n", "y", "/", "1", "2", "/", "a", "c", "m", "e">>,
        name |-> <<"A", "c", "m", "e", "2">>, location |-> <<"E", "l", "k", "o", ",", " ", "N", "V">>],
      \* a row whose first cell has no anchor
      [ntds |-> 2, anchor |-> FALSE, href |-> <<>>,
        name |-> <<>>, location |-> <<"E", "l", "y", ",", " ", "N", "V">>],
      \* a row with a single cell
      [ntds |-> 1, anchor |-> TRUE, href |-> <<"/", "c", "o", "m", "p", "a", "n", "y", "/", "9", "/", "z">>,
        name |-> <<"Z">>, location |-> <<>>],
      \* a row linking to another site
      [ntds |-> 2, anchor |-> TRUE, href |-> <<"h", "t", "t", "p", "s", ":", "/", "/", "e", "v", "i", "l", ".", "c", "o", "m", "/", "c">>,
        name |-> <<"E", "v", "i", "l">>, location |-> <<"X">>],
      \* a row whose href is not root-relative
      [ntds |-> 2, anchor |-> TRUE, href |-> <<"c", "o", "m", "p", "a", "n", "y", "/", "5", "/", "x">>,
        name |-> <<"R", "e", "l">>, location |-> <<"Y">>],
      \* a row whose anchor has no href
      [ntds |-> 2, anchor |-> TRUE, href |-> <<>>,
        name |-> <<"N", "o", "H", "r", "e", "f">>, location |-> <<"Z">>]
    }

\* pages the HTML table strategy may see
ListTablePages ==
    LET header == [ntds |-> 0, anchor |-> FALSE, href |-> <<>>, name |-> <<>>, location |-> <<>>]
    IN {BarePage, [BarePage EXCEPT !.table = [present |-> TRUE, rows |-> <<>>]]}
       \cup {[BarePage EXCEPT !.table = [present |-> TRUE, rows |-> <<header>> \o r]] :
                r \in SeqsUpTo(DataRows, MaxRows)}

\* roots of a detail page
DetailRoots ==
    { NoRoot,
      Root(<<SingleItem(<<"A", "u", "c", "t", "i", "o", "n", "e", "e", "r", ":", "1", "2">>)>>),
      Root(<<SingleItem(<<"A", "u", "c", "t", "i", "o", "n", "e", "e", "r", ":", "7">>)>>),
      Root(<<SingleItem(<<"A", "u", "c", "t", "i", "o", "n", "e", "e", "r", ":", "9", "9">>)>>),
      Root(<<SearchItem(<<Ref(<<"A", "u", "c", "t", "i", "o", "n", "e", "e", "r", ":", "1", "2">>)>>),
             SingleItem(<<"A", "u", "c", "t", "i", "o", "n", "e", "e", "r", ":", "4">>)>>),
      Root(<<SingleItem(<<"L", "o", "t", ":", "1", "2">>)>>) }

\* the visible part of a detail page: [h1, div]
DetailHtmls ==
    { [h1 |-> NoneV, div |-> NoneV],
      [h1 |-> StrV(<<"A", "c", "m", "e", " ", "-", " ", "L", "i", "v", "e", " ", "a", "n", "d", " ", "O", "n", "l", "i", "n", "e", " ", "A", "u", "c", "t", "i", "o", "n", "s">>), div |-> NoneV],
      [h1 |-> StrV(<<" ", "-", " ", "L", "I", "V", "E", " ", "A", "N", "D", " ", "O", "N", "L", "I", "N", "E", " ", "A", "U", "C", "T", "I", "O", "N", "S", " ", "|", " ", "H", "i", "B", "i", "d">>), div |-> NoneV],
      [h1 |-> NoneV,
       div |-> [tag |-> "div",
                links |-> << [href |-> <<"h", "t", "t", "p", "s", ":", "/", "/", "m", "a", "p", "s", ".", "g", "o", "o", "g", "l", "e", ".", "c", "o", "m", "/", "?", "q", "=", "1">>, text |-> <<"1", " ", "M", "a", "i", "n", " ", "S", "t">>],
                             [href |-> <<"t", "e", "l", ":", "5", "5", "5">>, text |-> <<"5", "5", "5", "-", "0", "1", "0", "0">>],
                             [href |-> <<"m", "a", "i", "l", "t", "o", ":", "m", "@", "x", ".", "i", "o">>, text |-> <<"m", "@", "x", ".", "i", "o">>],
                             [href |-> <<"h", "t", "t", "p", ":", "/", "/", "a", "c", "m", "e", ".", "c", "o">>, text |-> <<"a", "c", "m", "e", ".", "c", "o", "m">>] >>]] }

\* pages the details endpoint may see: every state with every root on a page
\* with nothing visible, and every state without a root on every visible part
DetailPages ==
    LET \* the state's entries: up to MaxEntries distinct ones, in any order
        entries == DistinctSeqs({EntA12, EntA7, EntA0, EntD12, EntNull, EntScalar, EntLot},
                                MaxEntries)
    IN {[BarePage EXCEPT !.script = k, !.h1 = h.h1, !.div = h.div] :
            k \in {"missing", "empty", "bad_json", "no_key"}, h \in DetailHtmls}
       \cup {StatePage(e, r) : e \in entries, r \in DetailRoots}
       \cup {[StatePage(e, NoRoot) EXCEPT !.h1 = h.h1, !.div = h.div] :
                e \in entries, h \in DetailHtmls}

-----------------------------------------------------------------------------
(* The requests *)

\* the url parameter of GET /api/get-company-details: absent, blank,
\* /company/12/x, /company/0/x, /company/133721,
\* http://u@HiBid.COM:8/company/7/b;p?q#f, and URLs the validator refuses or
\* chokes on
DetailsParams ==
    {NoneV} \cup
    { StrV(<<>>),
    StrV(<<"/", "c", "o", "m", "p", "a", "n", "y", "/", "1", "2", "/", "x">>),
    StrV(<<"/", "c", "o", "m", "p", "a", "n", "y", "/", "0", "/", "x">>),
    StrV(<<"/", "c", "o", "m", "p", "a", "n", "y", "/", "1", "3", "3", "7", "2", "1">>),
    StrV(<<"h", "t", "t", "p", ":", "/", "/", "u", "@", "H", "i", "B", "i", "d", ".", "C", "O", "M", ":", "8", "/", "c", "o", "m", "p", "a", "n", "y", "/", "7", "/", "b", ";", "p", "?", "q", "#", "f">>),
    StrV(<<"h", "t", "t", "p", "s", ":", "/", "/", "e", "v", "i", "l", ".", "c", "o", "m", "/", "c", "o", "m", "p", "a", "n", "y", "/", "1", "/", "x">>),
    StrV(<<"h", "t", "t", "p", "s", ":", "/", "/", "h", "i", "b", "i", "d", ".", "c", "o", "m", ".", "e", "v", "i", "l", ".", "c", "o", "m", "/", "c", "o", "m", "p", "a", "n", "y", "/", "1", "2", "/", "x">>),
    StrV(<<"h", "t", "t", "p", "s", ":", "/", "/", "a", ".", "h", "i", "b", "i", "d", ".", "c", "o", "m", "/", "c", "o", "m", "p", "a", "n", "y", "/", "1", "2", "/", "x">>),
    StrV(<<"h", "t", "t", "p", "s", ":", "/", "/", "h", "i", "b", "i", "d", ".", "c", "o", "m", "@", "e", "v", "i", "l", ".", "c", "o", "m", "/", "c", "o", "m", "p", "a", "n", "y", "/", "1", "2", "/", "x">>),
    StrV(<<"f", "t", "p", ":", "/", "/", "h", "i", "b", "i", "d", ".", "c", "o", "m", "/", "c", "o", "m", "p", "a", "n", "y", "/", "1", "2", "/", "x">>),
    StrV(<<"/", "a", "d", "m", "i", "n", "/", "s", "e", "c", "r", "e", "t">>),
    StrV(<<"h", "t", "t", "p", ":", "/", "/", "l", "o", "c", "a", "l", "h", "o", "s", "t", "/", "c", "o", "m", "p", "a", "n", "y", "/", "1", "2", "/", "x">>),
    StrV(<<"h", "t", "t", "p", ":", "/", "/", "[", "h", "i", "b", "i", "d", ".", "c", "o", "m", "/", "c", "o", "m", "p", "a", "n", "y", "/", "1", "2", "/", "x">>),
    StrV(<<"h", "t", "t", "p", "s", ":", "/", "/", "h", "i", "b", "i", "d", ".", "c", "o", "m", "/", "c", "o", "m", "p", "a", "n", "y", "/", "x">>) }

\* the page parameter of GET /api/get-company-list: absent, blank, "1", "31",
\* and values out of range (" 32 ", "32", "0", "-1", "100") or not integers
PageParams ==
    {NoneV} \cup
    { StrV(<<>>),
    StrV(<<" ", "3", "2", " ">>),
    StrV(<<"1">>),
    StrV(<<"3", "1">>),
    StrV(<<"3", "2">>),
    StrV(<<"0">>),
    StrV(<<"-", "1">>),
    StrV(<<"1", "0", "0">>),
    StrV(<<"a", "b", "c">>),
    StrV(<<"1", ".", "5">>),
    StrV(<<"3", "x">>) }

\* parse_qs drops blank values: params.get(name, [default])[0]
ParamGet(param, default) ==
    IF param.tag = "none" \/ param.val = <<>> THEN default ELSE param

\* why _fetch_page returns None
FetchFailures == {"timeout", "connection_error", "http_error", "request_error"}

NoPage == [script |-> "none"]
NoResponse == [status |-> 0]
Pending == [tag |-> "pending"]

\* build_error_response / build_success_response, with the status sent
ErrorResponse(code) == [status |-> code, success |-> FALSE]
SuccessResponse(data) == [status |-> 200, success |-> TRUE, data |-> data]

-----------------------------------------------------------------------------
(* The initial states: one request, nothing done yet *)

InitCommon ==
    /\ validated = Pending
    /\ lookups = <<>>
    /\ fetches = <<>>
    /\ markup = NoPage
    /\ steps = <<>>
    /\ apollo = Pending
    /\ response = NoResponse

InitValidate ==
    /\ InitCommon
    /\ op = "validate_url" /\ pc = "call" /\ request \in ValidateInputs

InitDetails ==
    /\ InitCommon
    /\ op = "details" /\ pc = "start" /\ request \in DetailsParams

InitList ==
    /\ InitCommon
    /\ op = "list" /\ pc = "start" /\ request \in PageParams

\* a direct call of fetch_company_list_from_apollo_state: markup is the page
\* the site will serve
InitExtract ==
    /\ validated = Pending
    /\ lookups = <<>>
    /\ fetches = <<>>
    /\ steps = <<>>
    /\ apollo = Pending
    /\ response = NoResponse
    /\ op = "list_from_state" /\ pc = "call" /\ request = IntV(1)
    /\ markup \in ListStatePages

\* the characters company names are made of: a lower-case and an upper-case
\* letter, a digit, two kinds of whitespace, a hyphen, other punctuation
NameChars == {"a", "B", "7", " ", "\t", "-", "_"}

\* a direct call of _make_slug: request is the name
InitSlug ==
    /\ InitCommon
    /\ op = "make_slug" /\ pc = "call"
    /\ request \in {StrV(n) : n \in UNION {[1..k -> NameChars] : k \in 0..MaxNameLen}}

Init == InitValidate \/ InitDetails \/ InitList \/ InitExtract \/ InitSlug

-----------------------------------------------------------------------------
(* A direct call of validate_url *)

\* the answers the resolver may give to this call: any, when the validator
\* gets as far as asking; none to choose from when it does not ask
AnswersFor(raw, answers) ==
    IF ValidateRun(raw, [tag |-> "fail"]).lookups = <<>> THEN {[tag |-> "fail"]} ELSE answers

CallValidate ==
    /\ op = "validate_url" /\ pc = "call"
    /\ \E ans \in AnswersFor(request, DnsAnswers) :
         \E run \in {ValidateRun(request, ans)} :
            /\ validated' = run.result
            /\ lookups' = run.lookups
    /\ pc' = "done"
    /\ UNCHANGED <<op, request, fetches, markup, steps, apollo, response>>

-----------------------------------------------------------------------------
(* api/get_company_details.py: handler.do_GET *)

\* lines 46-68: read the url parameter and validate it
\* a variant that ignores a rejection by validate_url
DetailsStatusMutNoValidation(raw_url, result) ==
    IF ~Truthy(raw_url) THEN 400
    ELSE IF result.tag = "raise" THEN 400
    ELSE 0

DetailsStatus(raw_url, result) ==
    IF ~Truthy(raw_url) THEN 400
    ELSE IF result.tag = "raise" THEN 400
    ELSE IF ~Truthy(result) THEN 400
    ELSE 0

\* the resolver's answers in a request: a failure or a single address
RequestDnsAnswers == {a \in DnsAnswers : a.tag = "fail" \/ Len(a.addrs) = 1}

DetailsReceive ==
    /\ op = "details" /\ pc = "start"
    /\ LET raw_url == ParamGet(request, NoneV)
       IN \E ans \in AnswersFor(raw_url, RequestDnsAnswers) :
            LET run == IF Truthy(raw_url) THEN ValidateRun(raw_url, ans)
                       ELSE [result |-> Pending, lookups |-> <<>>]
                status == DetailsStatus(raw_url, run.result)
            IN /\ validated' = run.result
               /\ lookups' = run.lookups
               /\ IF status # 0
                  THEN response' = ErrorResponse(status) /\ pc' = "done"
                  ELSE response' = response /\ pc' = "fetch"
    /\ UNCHANGED <<op, request, fetches, markup, steps, apollo>>

\* the URL fetch_company_details is called with
DetailsFetchUrl == IF validated.tag = "str" THEN validated.val ELSE <<>>

\* the status sent once fetch_company_details has returned
\* a variant that answers 500 when nothing was extracted
DetailsResultStatusMut500(details) == IF details = NoneV THEN 500 ELSE 200

DetailsResultStatus(details) == IF details = NoneV THEN 502 ELSE 200

\* lines 71-81 with fetch_company_details: the fetch fails
DetailsFetchFails ==
    /\ op = "details" /\ pc = "fetch"
    /\ \E why \in FetchFailures :
         fetches' = Append(fetches, [url |-> DetailsFetchUrl, outcome |-> why])
    /\ response' = ErrorResponse(DetailsResultStatus(NoneV))
    /\ pc' = "done"
    /\ UNCHANGED <<op, request, validated, lookups, markup, steps, apollo>>

\* lines 71-83 with fetch_company_details: the fetch returns a page
DetailsFetchOk ==
    /\ op = "details" /\ pc = "fetch"
    /\ \E page \in DetailPages :
         \E fromState \in {extract_details_from_apollo(page, DetailsFetchUrl)},
            details \in {DetailsFromPage(page, DetailsFetchUrl)} :
            /\ fetches' = Append(fetches, [url |-> DetailsFetchUrl, outcome |-> "ok"])
            /\ markup' = page
            /\ apollo' = fromState
            /\ steps' = IF fromState # NoneV THEN <<"apollo_state">>
                        ELSE <<"apollo_state", "html">>
            /\ response' = IF details = NoneV
                           THEN ErrorResponse(DetailsResultStatus(details))
                           ELSE SuccessResponse(details)
    /\ pc' = "done"
    /\ UNCHANGED <<op, request, validated, lookups>>

-----------------------------------------------------------------------------
(* api/get_company_list.py: handler.do_GET *)

\* lines 49-60: the page number, or the status of the refusal
\* a variant whose upper limit is one too high
PageInRangeMutOffByOne(page) == page >= 1 /\ page <= MAX_PAGE_NUMBER + 1

PageInRange(page) == ~(page < 1 \/ page > MAX_PAGE_NUMBER)

ListStatus(page) ==
    IF page.tag = "raise" THEN 400
    ELSE IF ~PageInRange(page.val) THEN 400
    ELSE 0

ListReceive ==
    /\ op = "list" /\ pc = "start"
    /\ LET page == PyInt(ParamGet(request, StrV(<<"1">>)).val)
           status == ListStatus(page)
       IN /\ validated' = page
          /\ IF status # 0
             THEN response' = ErrorResponse(status) /\ pc' = "done"
             ELSE response' = response /\ pc' = "apollo"
    /\ UNCHANGED <<op, request, lookups, fetches, markup, steps, apollo>>

\* "apollo_result and apollo_result.get('companies')"
HasCompanies(result) == result # NoneV /\ result.companies # <<>>

\* lines 91-98: the success payload
ListPayload(page, companies, total_count, source) ==
    [page |-> page, page_size |-> Len(companies), total_count |-> total_count,
     source |-> source, companies |-> companies]

\* what the embedded-state strategy saw: whether a state was found and how
\* many entities it collected
StateDigest(page) ==
    LET st == extract_apollo_state(page)
    IN IF StateFalsy(st) THEN [state |-> FALSE, entities |-> 0]
       ELSE [state |-> TRUE, entities |-> Len(extract_auctioneers_from_apollo(st))]

\* lines 70-75 with fetch_company_list_from_apollo_state: the fetch fails
ListApolloFetchFails ==
    /\ op = "list" /\ pc = "apollo"
    /\ \E why \in FetchFailures :
         fetches' = Append(fetches, [url |-> COMPANYSEARCH_URL, outcome |-> why])
    /\ apollo' = NoneV
    /\ steps' = Append(steps, [strategy |-> "apollo_state", fetched |-> FALSE,
                               state |-> FALSE, entities |-> 0, found |-> 0])
    /\ pc' = "html"
    /\ UNCHANGED <<op, request, validated, lookups, markup, response>>

\* lines 70-75 with fetch_company_list_from_apollo_state: the fetch returns a
\* page; with companies recovered the handler answers, else it falls back
ListApolloFetchOk ==
    /\ op = "list" /\ pc = "apollo"
    /\ \E page \in ListStatePages :
         \E result \in {ListFromState(page)}, digest \in {StateDigest(page)} :
            /\ fetches' = Append(fetches, [url |-> COMPANYSEARCH_URL, outcome |-> "ok"])
            /\ apollo' = result
            /\ steps' = Append(steps, [strategy |-> "apollo_state", fetched |-> TRUE,
                                       state |-> digest.state, entities |-> digest.entities,
                                       found |-> IF result = NoneV THEN 0
                                                 ELSE Len(result.companies)])
            /\ IF HasCompanies(result)
               THEN /\ markup' = page
                    /\ response' = SuccessResponse(
                          ListPayload(validated.val, result.companies,
                                      result.total_count, "apollo_state"))
                    /\ pc' = "done"
               ELSE /\ markup' = NoPage
                    /\ response' = response
                    /\ pc' = "html"
    /\ UNCHANGED <<op, request, validated, lookups>>

\* lines 81-108: the answer once both strategies have run
\* a variant that answers success with an empty list
ListAnswerMutEmptySuccess(page, companies) ==
    SuccessResponse(ListPayload(page, companies, NoneV, "html_table"))

ListAnswer(page, companies) ==
    IF companies = <<>> THEN ErrorResponse(502)
    ELSE SuccessResponse(ListPayload(page, companies, NoneV, "html_table"))

\* lines 77-108 with fetch_company_list_from_html: the fetch fails
ListHtmlFetchFails ==
    /\ op = "list" /\ pc = "html"
    /\ \E why \in FetchFailures :
         fetches' = Append(fetches, [url |-> COMPANYSEARCH_URL, outcome |-> why])
    /\ steps' = Append(steps, [strategy |-> "html_table", fetched |-> FALSE,
                               state |-> FALSE, entities |-> 0, found |-> 0])
    /\ response' = ListAnswer(validated.val, <<>>)
    /\ pc' = "done"
    /\ UNCHANGED <<op, request, validated, lookups, markup, apollo>>

\* lines 77-108 with fetch_company_list_from_html: the fetch returns a page
ListHtmlFetchOk ==
    /\ op = "list" /\ pc = "html"
    /\ \E page \in ListTablePages :
         \E html_result \in {ListFromHtml(page)} :
         \E companies \in {IF html_result = NoneV THEN <<>> ELSE html_result.companies} :
            /\ fetches' = Append(fetches, [url |-> COMPANYSEARCH_URL, outcome |-> "ok"])
            /\ markup' = page
            /\ steps' = Append(steps, [strategy |-> "html_table", fetched |-> TRUE,
                                       state |-> FALSE, entities |-> 0,
                                       found |-> Len(companies)])
            /\ response' = ListAnswer(validated.val, companies)
    /\ pc' = "done"
    /\ UNCHANGED <<op, request, validated, lookups, apollo>>

-----------------------------------------------------------------------------
(* api/_lib/scraper.py: a direct call of fetch_company_list_from_apollo_state *)

\* lines 180-182: the fetch fails and the function returns None
CallListFromStateFetchFails ==
    /\ op = "list_from_state" /\ pc = "call"
    /\ \E why \in FetchFailures :
         fetches' = Append(fetches, [url |-> COMPANYSEARCH_URL, outcome |-> why])
    /\ apollo' = NoneV
    /\ pc' = "done"
    /\ UNCHANGED <<op, request, validated, lookups, markup, steps, response>>

\* lines 180-229: the fetch returns the page and the function extracts from it
CallListFromState ==
    /\ op = "list_from_state" /\ pc = "call"
    /\ fetches' = Append(fetches, [url |-> COMPANYSEARCH_URL, outcome |-> "ok"])
    /\ apollo' = ListFromState(markup)
    /\ pc' = "done"
    /\ UNCHANGED <<op, request, validated, lookups, markup, steps, response>>

-----------------------------------------------------------------------------
(* api/_lib/scraper.py: a direct call of _make_slug *)

CallMakeSlug ==
    /\ op = "make_slug" /\ pc = "call"
    /\ validated' = StrV(make_slug(request.val))
    /\ pc' = "done"
    /\ UNCHANGED <<op, request, lookups, fetches, markup, steps, apollo, response>>

-----------------------------------------------------------------------------
(* The specification *)

\* direct calls of validate_url
NextValidate == CallValidate

SpecValidate == InitValidate /\ [][NextValidate]_vars

\* requests to GET /api/get-company-details
NextDetails ==
    \/ DetailsReceive
    \/ DetailsFetchFails
    \/ DetailsFetchOk

SpecDetails == InitDetails /\ [][NextDetails]_vars

\* requests to GET /api/get-company-list
NextList ==
    \/ ListReceive
    \/ ListApolloFetchFails
    \/ ListApolloFetchOk
    \/ ListHtmlFetchFails
    \/ ListHtmlFetchOk

SpecList == InitList /\ [][NextList]_vars

\* direct calls of fetch_company_list_from_apollo_state
NextExtract ==
    \/ CallListFromStateFetchFails
    \/ CallListFromState

SpecExtract == InitExtract /\ [][NextExtract]_vars

\* requests to either endpoint
NextEndpoints == NextDetails \/ NextList

SpecEndpoints == (InitDetails \/ InitList) /\ [][NextEndpoints]_vars

\* direct calls of _make_slug
NextSlug == CallMakeSlug

SpecSlug == InitSlug /\ [][NextSlug]_vars

\* everything together
Next == NextValidate \/ NextDetails \/ NextList \/ NextExtract \/ NextSlug

Spec == Init /\ [][Next]_vars

-----------------------------------------------------------------------------
(* Properties of the details endpoint's authorisation (SpecDetails) *)

\* the url parameter as the handler sees it is missing
UrlMissing(param) == param.tag = "none" \/ (param.tag = "str" /\ param.val = <<>>)

\* the parameter names a host, and the host is not on the allow-list
NamesForeignHost(param) ==
    /\ param.tag = "str"
    /\ LET parsed == urlparse(Strip(param.val))
       IN /\ parsed.tag = "parsed"
          /\ parsed.netloc # <<>>
          /\ LET host == Hostname(parsed.netloc)
             IN host.tag = "str" /\ Lower(host.val) \notin ALLOWED_DOMAINS

-----------------------------------------------------------------------------
(* Properties of validate_url (SpecValidate) *)

\* the text between the first and the second "/" after the /company/ prefix
SecondSegment(path) ==
    LET rest == Drop(path, Len(COMPANY_PROFILE_PATH_PREFIX))
        slash == Find(rest, "/")
    IN IF slash = 0 THEN rest ELSE Take(rest, slash - 1)

\* C2: every URL validate_url returns is https://<host><path>: <host> is on
\* the allow-list and is the input's host lower-cased (port and userinfo
\* dropped), <path> is the path component of the input, begins with /company/
\* and has an integer second segment; the URL holds no "?" and no "#", and
\* its scheme is https also for an http input.
C2_ReturnedUrlForm ==
    (op = "validate_url" /\ pc = "done" /\ validated.tag = "str") =>
        /\ request.tag = "str"
        /\ LET input == urlparse(Strip(request.val))
               v == validated.val
           IN /\ input.tag = "parsed"
              /\ \E d \in ALLOWED_DOMAINS :
                    /\ v = HttpsPrefix \o d \o input.path
                    /\ input.netloc # <<>> => d = Lower(Hostname(input.netloc).val)
              /\ StartsWith(input.path, COMPANY_PROFILE_PATH_PREFIX)
              /\ PyInt(SecondSegment(input.path)).tag = "int"
              /\ ~Contains(v, "?") /\ ~Contains(v, "#")

\* an http input with userinfo, upper-case letters, a port, a query and a
\* fragment has been accepted
C2_Witness ==
    /\ op = "validate_url" /\ pc = "done"
    /\ request.tag = "str"
    /\ StartsWith(request.val, HttpPrefix)
    /\ Contains(request.val, "@") /\ Contains(request.val, "B")
    /\ Contains(request.val, "?") /\ Contains(request.val, "#")
    /\ validated.tag = "str"
    /\ StartsWith(validated.val, HttpsPrefix)

\* a relative input of the form /company/<digits>/<anything>
IsRelativeProfilePath(s) ==
    /\ StartsWith(s, COMPANY_PROFILE_PATH_PREFIX)
    /\ LET rest == Drop(s, Len(COMPANY_PROFILE_PATH_PREFIX))
           slash == Find(rest, "/")
       IN slash > 1 /\ \A j \in 1..(slash - 1) : IsDigit(rest[j])

\* the resolver gave no answer other than public addresses
ResolvedPublicOnly ==
    \A i \in 1..Len(lookups) :
        /\ lookups[i].answer.tag = "addrs"
        /\ \A j \in 1..Len(lookups[i].answer.addrs) : lookups[i].answer.addrs[j] = "public"

\* the text before the first "?" or "#"
WithoutQueryAndFragment(s) == Take(s, FindAny(s, {"?", "#"}, 1) - 1)

\* the text without the ";parameters" of its last segment
WithoutParameters(s) ==
    LET semis == {i \in 1..Len(s) : s[i] = ";" /\ \A j \in i..Len(s) : s[j] # "/"}
    IN IF semis = {} THEN s
       ELSE Take(s, (CHOOSE i \in semis : \A k \in semis : i <= k) - 1)

\* the text without surrounding whitespace and without tabs and newlines
WithoutBlanks(s) ==
    LET kept == SelectSeq(s, LAMBDA c : c \notin {"\t", "\r", "\n"})
        inner == {i \in 1..Len(kept) : kept[i] # " "}
    IN IF inner = {} THEN <<>>
       ELSE SubSeq(kept, CHOOSE i \in inner : \A k \in inner : i <= k,
                         CHOOSE i \in inner : \A k \in inner : i >= k)

\* C3 as stated: a relative input /company/<digits>/<anything>, the host
\* resolving to public addresses only, is accepted and the result is
\* https://hibid.com followed by the input with its query string and fragment
\* removed.
C3_RelativePathKept ==
    (op = "validate_url" /\ pc = "done" /\ request.tag = "str"
        /\ IsRelativeProfilePath(request.val) /\ ResolvedPublicOnly) =>
        validated = StrV(HIBID_BASE_URL \o WithoutQueryAndFragment(request.val))

\* C3 amended: a relative input /company/<digits>/<anything>, the host
\* resolving to public addresses only, is accepted and the result is
\* https://hibid.com followed by the input with its query string, its
\* fragment, the ";parameters" of its last path segment, its surrounding
\* whitespace and every tab and newline character removed.
C3_RelativePathNormalised ==
    (op = "validate_url" /\ pc = "done" /\ request.tag = "str"
        /\ IsRelativeProfilePath(request.val) /\ ResolvedPublicOnly) =>
        validated = StrV(HIBID_BASE_URL
            \o WithoutBlanks(WithoutParameters(WithoutQueryAndFragment(request.val))))

\* a relative input carrying parameters, a query and a fragment has been
\* accepted on a public answer
C3_Witness ==
    /\ op = "validate_url" /\ pc = "done"
    /\ request.tag = "str" /\ IsRelativeProfilePath(request.val)
    /\ Contains(request.val, ";") /\ Contains(request.val, "?") /\ Contains(request.val, "#")
    /\ Len(lookups) = 1 /\ ResolvedPublicOnly
    /\ validated.tag = "str"

\* the resolver failed, or one of the addresses it gave is not public
BlockedAnswer(answer) ==
    \/ answer.tag = "fail"
    \/ /\ answer.tag = "addrs"
       /\ \E j \in 1..Len(answer.addrs) :
             answer.addrs[j] \in {"loopback", "private", "link_local", "reserved"}

\* C4: validate_url returns no URL when the host fails to resolve or when any
\* of its addresses is loopback, private, link-local or reserved; a URL is
\* returned only after a lookup that gave public addresses alone.
C4_BlockedHostsRejected ==
    (op = "validate_url" /\ pc = "done") =>
        /\ (\E i \in 1..Len(lookups) : BlockedAnswer(lookups[i].answer)) => validated = NoneV
        /\ validated.tag = "str" =>
              /\ Len(lookups) = 1
              /\ ~BlockedAnswer(lookups[1].answer)

\* a host with a public and a private address has been rejected
C4_Witness ==
    /\ op = "validate_url" /\ pc = "done"
    /\ Len(lookups) = 1
    /\ lookups[1].answer.tag = "addrs"
    /\ \E j, k \in 1..Len(lookups[1].answer.addrs) :
          lookups[1].answer.addrs[j] = "public" /\ lookups[1].answer.addrs[k] = "private"
    /\ validated = NoneV

\* the input names a host that is on the allow-list
NamesAllowedHost(s) ==
    LET parsed == urlparse(Strip(s))
    IN /\ parsed.tag = "parsed"
       /\ parsed.netloc # <<>>
       /\ Lower(Hostname(parsed.netloc).val) \in ALLOWED_DOMAINS

\* the scheme of an input (lower-cased), empty when it has none
SchemeOf(s) == SplitScheme(Strip(s))[1]

\* C5: validate_url rejects the empty string, None, every input whose scheme
\* is neither http nor https, and every input without a scheme that (trimmed)
\* does not begin with /company/.
C5_MalformedInputsRejected ==
    (op = "validate_url" /\ pc = "done"
        /\ \/ request = NoneV
           \/ request = StrV(<<>>)
           \/ /\ request.tag = "str"
              /\ \/ SchemeOf(request.val) \notin {<<>>, <<"h", "t", "t", "p">>, <<"h", "t", "t", "p", "s">>}
                 \/ /\ SchemeOf(request.val) = <<>>
                    /\ ~StartsWith(Strip(request.val), COMPANY_PROFILE_PATH_PREFIX)) =>
        validated = NoneV

\* an ftp URL on an allowed host with a good path has been rejected
C5_Witness ==
    /\ op = "validate_url" /\ pc = "done"
    /\ request.tag = "str"
    /\ SchemeOf(request.val) = <<"f", "t", "p">>
    /\ NamesAllowedHost(request.val)
    /\ validated = NoneV

-----------------------------------------------------------------------------
(* Properties of list extraction from the embedded state (SpecExtract) *)

\* the entries are Auctioneer entities with pairwise distinct integer ids
DistinctAuctioneerEntities(entries) ==
    /\ entries # <<>>
    /\ \A i \in 1..Len(entries) :
          /\ entries[i].isdict
          /\ StartsWith(entries[i].key, AUCTIONEER_REF_PREFIX)
          /\ entries[i].isdict
          /\ entries[i].val.id.tag = "int"
    /\ \A i, j \in 1..Len(entries) :
          i # j => entries[i].val.id.val # entries[j].val.id.val

\* a reference object {"__ref": "Auctioneer:<digits>"}
IsAuctioneerRef(r) ==
    /\ r.kind = "ref"
    /\ StartsWith(r.key, AUCTIONEER_REF_PREFIX)
    /\ Len(r.key) > Len(AUCTIONEER_REF_PREFIX)
    /\ \A i \in (Len(AUCTIONEER_REF_PREFIX) + 1)..Len(r.key) : IsDigit(r.key[i])

\* the id a reference names
RefId(r) == DigitsValue(Drop(r.key, Len(AUCTIONEER_REF_PREFIX)))

\* the page holds Auctioneer entities and one auctioneerSearch root whose
\* results list is a non-empty list of distinct references
OrderedSearchPage(page) ==
    /\ page.script = "state"
    /\ DistinctAuctioneerEntities(page.entries)
    /\ page.root.present
    /\ Len(page.root.items) = 1
    /\ page.root.items[1].isdict
    /\ Substring(page.root.items[1].key, SearchMarker)
    /\ LET refs == page.root.items[1].results
       IN /\ refs # <<>>
          /\ \A i \in 1..Len(refs) : IsAuctioneerRef(refs[i])
          /\ \A i, j \in 1..Len(refs) : i # j => refs[i] # refs[j]

\* the formatted entities the references name, in the order of the results
\* list, references naming no entity left out
RecordsInResultOrder(page) ==
    LET refs == page.root.items[1].results
        entries == page.entries
        Resolves(r) == \E j \in 1..Len(entries) : entries[j].val.id.val = RefId(r)
        kept == SelectSeq(refs, Resolves)
    IN [i \in 1..Len(kept) |->
          format_auctioneer(
             entries[CHOOSE j \in 1..Len(entries) :
                        entries[j].val.id.val = RefId(kept[i])].val)]

\* C6: from a state holding N Auctioneer entities and an auctioneerSearch
\* root whose results reference M <= N of their ids, list extraction returns
\* exactly the M formatted entities, the i-th being the one the i-th resolving
\* reference names; references naming no entity are left out.
C6_RecordsFollowResults ==
    (op = "list_from_state" /\ pc = "done" /\ fetches[1].outcome = "ok"
        /\ OrderedSearchPage(markup)) =>
        /\ apollo.tag = "result"
        /\ apollo.companies = RecordsInResultOrder(markup)

-----------------------------------------------------------------------------
(* Properties of single-entity recovery in the details endpoint (SpecDetails) *)

\* the entries of the page that are Auctioneer entities carrying the id the
\* validated URL names
MatchingEntities ==
    {i \in 1..Len(markup.entries) :
        /\ markup.entries[i].isdict
        /\ StartsWith(markup.entries[i].key, AUCTIONEER_REF_PREFIX)
        /\ markup.entries[i].val.id.tag = "int"
        /\ markup.entries[i].val.id = extract_company_id_from_url(validated.val)}

\* C7: in the details endpoint, when the embedded state holds an Auctioneer
\* entity whose id is the id in the request URL, the answer is a success whose
\* payload is that entity formatted (name, phone, email, website, fax, ...),
\* whatever other entities the state holds and in whatever order, with
\* profile_url the validated URL.
C7_MatchingEntityIsReturned ==
    (op = "details" /\ pc = "done" /\ Len(fetches) = 1 /\ fetches[1].outcome = "ok"
        /\ markup.script = "state" /\ MatchingEntities # {}) =>
        /\ response.success
        /\ \E i \in MatchingEntities :
              response.data = format_auctioneer_detail(markup.entries[i].val, validated.val)

-----------------------------------------------------------------------------
(* Properties of the list endpoint (SpecList) *)

\* the companies the embedded-state strategy and the HTML strategy recovered
FoundInState == IF Len(steps) >= 1 THEN steps[1].found ELSE 0
FoundInTable == IF Len(steps) >= 2 THEN steps[2].found ELSE 0

-----------------------------------------------------------------------------
(* Properties of both endpoints (SpecEndpoints) *)

-----------------------------------------------------------------------------
(* Properties of the page parameter (SpecList) *)

\* the integer a page parameter denotes: blanks around an optional sign and
\* decimal digits; NoneV when the text is not of that form
PageAsInteger(text) ==
    LET inner == {i \in 1..Len(text) : text[i] # " "}
        first == CHOOSE i \in inner : \A k \in inner : i <= k
        last == CHOOSE i \in inner : \A k \in inner : i >= k
        signed == text[first] \in {"+", "-"}
        from == IF signed THEN first + 1 ELSE first
        digits == SubSeq(text, from, last)
    IN IF inner = {} THEN NoneV
       ELSE IF digits = <<>> \/ \E i \in 1..Len(digits) : ~IsDigit(digits[i]) THEN NoneV
       ELSE IntV(IF text[first] = "-" THEN 0 - DigitsValue(digits) ELSE DigitsValue(digits))

\* the page a request asks for: 1 when the parameter is absent (a blank value
\* is dropped by parse_qs, so it is absent too)
RequestedPage ==
    IF request.tag = "none" \/ request.val = <<>> THEN IntV(1)
    ELSE PageAsInteger(request.val)

\* C10: the list endpoint takes the page parameter in 1..31, 1 when absent:
\* a page below 1, above 31 or not an integer is answered 400 and no fetch is
\* issued; a page in range is never answered 400.
C10_PageRange ==
    (op = "list" /\ pc # "start") =>
        IF RequestedPage.tag = "int" /\ RequestedPage.val >= 1 /\ RequestedPage.val <= 31
        THEN response.status # 400
        ELSE /\ pc = "done"
             /\ response.status = 400
             /\ fetches = <<>>

\* page=32 has been refused without a fetch
C10_Witness ==
    /\ op = "list" /\ pc = "done"
    /\ request = StrV(<<"3", "2">>)
    /\ response.status = 400
    /\ fetches = <<>>

-----------------------------------------------------------------------------
(* Properties of slug derivation (SpecSlug) *)

\* a character of [a-z0-9-]
InSlugAlphabet(c) == (\E i \in 1..26 : LowerLetters[i] = c) \/ IsDigit(c) \/ c = "-"

\* C11: _make_slug is idempotent; its result holds only characters of
\* [a-z0-9-], neither begins nor ends with a hyphen and holds no two adjacent
\* hyphens; a name with no alphanumeric character gives the empty slug.
C11_SlugNormalForm ==
    (op = "make_slug" /\ pc = "done") =>
        LET name == request.val
            slug == validated.val
        IN /\ make_slug(slug) = slug
           /\ \A i \in 1..Len(slug) : InSlugAlphabet(slug[i])
           /\ slug # <<>> => slug[1] # "-" /\ slug[Len(slug)] # "-"
           /\ \A i \in 1..(Len(slug) - 1) : ~(slug[i] = "-" /\ slug[i + 1] = "-")
           /\ (\A i \in 1..Len(name) : ~IsAlpha(name[i]) /\ ~IsDigit(name[i])) => slug = <<>>

\* "B -a" has been turned into "b-a"
C11_Witness ==
    /\ op = "make_slug" /\ pc = "done"
    /\ request = StrV(<<"B", " ", "-", "a">>)
    /\ validated = StrV(<<"b", "-", "a">>)

-----------------------------------------------------------------------------
(* Properties of the records the endpoints return (SpecEndpoints) *)

\* a well-formed absolute URL whose host is an allowed domain
AbsoluteAllowedUrl(u) ==
    LET parsed == urlparse(u)
    IN /\ parsed.tag = "parsed"
       /\ parsed.scheme \in {<<"h", "t", "t", "p">>, <<"h", "t", "t", "p", "s">>}
       /\ Hostname(parsed.netloc).tag = "str"
       /\ Hostname(parsed.netloc).val \in ALLOWED_DOMAINS

\* the company records of the answer sent: those of a list, or the one of a
\* details answer
RecordsSent ==
    IF response.status # 200 THEN <<>>
    ELSE IF op = "list" THEN response.data.companies
    ELSE <<response.data>>

\* C12: every company record an extraction path produces, from the embedded
\* state or from the markup, for a list or for details, has a profile_url
\* that is a well-formed absolute URL whose host is an allowed domain.
C12_ProfileUrlUnderAllowedDomain ==
    \A i \in 1..Len(RecordsSent) : AbsoluteAllowedUrl(RecordsSent[i].profile_url)

-----------------------------------------------------------------------------
(* Properties of the pipeline after a failed fetch (SpecEndpoints) *)

\* C13: once a fetch issued for a request has failed, nothing is fetched
\* again and no extraction strategy runs for that request, in the list
\* endpoint and in the details endpoint: the failed fetch is the last one
\* and the answer is an error.
C13_FailedFetchEndsPipeline ==
    \A i \in 1..Len(fetches) :
        fetches[i].outcome # "ok" =>
            /\ i = Len(fetches)
            /\ op = "details" => steps = <<>>
            /\ op = "list" => \A j \in (i + 1)..Len(steps) : ~steps[j].fetched
            /\ pc = "done" => response.status # 200

-----------------------------------------------------------------------------
(* Properties of the contact fallback of single-entity recovery (SpecDetails) *)

\* the entries of the page that are Auctioneer entities with a phone or an
\* email
ContactEntities ==
    {i \in 1..Len(markup.entries) :
        /\ markup.entries[i].isdict
        /\ StartsWith(markup.entries[i].key, AUCTIONEER_REF_PREFIX)
        /\ \/ Truthy(Get(markup.entries[i].val, "phone", NoneV))
           \/ Truthy(Get(markup.entries[i].val, "email", NoneV))}

\* C14: when no Auctioneer entity of the embedded state has the id the
\* request URL names (or the URL names none), single-entity recovery returns
\* the first Auctioneer entity, in state order, that has a phone or an email,
\* whenever there is one.
C14_ContactFallbackWhenNoMatch ==
    (op = "details" /\ pc = "done" /\ Len(fetches) = 1 /\ fetches[1].outcome = "ok"
        /\ markup.script = "state" /\ MatchingEntities = {} /\ ContactEntities # {}) =>
        LET first == CHOOSE i \in ContactEntities : \A j \in ContactEntities : i <= j
        IN apollo = format_auctioneer_detail(markup.entries[first].val, validated.val)

-----------------------------------------------------------------------------
(* Properties of the handling of embedded-state anomalies (SpecEndpoints) *)

\* the results list of the page's auctioneerSearch root, empty without one
SearchResults(page) ==
    IF page.root.present /\ FirstSearchItem(page.root.items) # 0
    THEN page.root.items[FirstSearchItem(page.root.items)].results
    ELSE <<>>

\* the record is that of an Auctioneer entity of the page which a well-formed
\* reference of the results list names by its id
FromResolvingReference(record, page) ==
    \E j \in 1..Len(SearchResults(page)), i \in 1..Len(page.entries) :
        /\ IsAuctioneerRef(SearchResults(page)[j])
        /\ page.entries[i].isdict
        /\ StartsWith(page.entries[i].key, AUCTIONEER_REF_PREFIX)
        /\ page.entries[i].val.id = IntV(RefId(SearchResults(page)[j]))
        /\ record = format_auctioneer(page.entries[i].val)

\* C15: no anomaly of the embedded state makes a request fault. When the
\* state script is missing, is not decodable or lacks the state key, the
\* embedded-state strategy yields absent; a reference that names no entity or
\* is not of the form Auctioneer:<integer> gives no record; whenever the
\* embedded-state strategy recovers nothing the HTML strategy runs; and no
\* answer is HTTP 500.
C15_StateAnomaliesDegrade ==
    /\ response.status # 500
    /\ (op = "list" /\ steps # <<>> /\ steps[1].fetched) =>
          /\ ~steps[1].state => apollo = NoneV
          /\ steps[1].found = 0 =>
                (pc = "html" \/ (Len(steps) = 2 /\ steps[2].strategy = "html_table"))
    /\ (op = "list" /\ pc = "done" /\ response.status = 200
           /\ response.data.source = "apollo_state"
           /\ \E j \in 1..Len(SearchResults(markup)) : IsAuctioneerRef(SearchResults(markup)[j])) =>
          \A i \in 1..Len(response.data.companies) :
              FromResolvingReference(response.data.companies[i], markup)
    /\ (op = "details" /\ pc = "done" /\ Len(fetches) = 1 /\ fetches[1].outcome = "ok") =>
          /\ markup.script # "state" => apollo = NoneV
          /\ apollo = NoneV => steps = <<"apollo_state", "html">>
          /\ apollo # NoneV =>
                \E i \in 1..Len(markup.entries) :
                    /\ markup.entries[i].isdict
                    /\ StartsWith(markup.entries[i].key, AUCTIONEER_REF_PREFIX)
                    /\ apollo = format_auctioneer_detail(markup.entries[i].val, validated.val)

-----------------------------------------------------------------------------
(* Properties of the HTML-table list extraction (SpecList) *)

\* the rows after the header that have an anchor in the first cell
AnchoredRows(rows) == {i \in 2..Len(rows) : rows[i].anchor}

\* those of them that have at least two cells
TwoCellAnchoredRows(rows) == {i \in AnchoredRows(rows) : rows[i].ntds >= 2}

\* the rows of a set whose href no earlier row of the set has
FirstOfHref(rows, among) ==
    {i \in among : \A j \in among : j < i => rows[j].href # rows[i].href}

\* the k-th row of a set in document order
RowAt(among, k) ==
    CHOOSE i \in among : Cardinality({j \in among : j < i}) = k - 1

\* the records the HTML strategy gave the handler
TableRecords == IF response.success THEN response.data.companies ELSE <<>>

\* the records are those of the rows of the set, one each, in document order
RecordsOfRows(records, rows, among) ==
    /\ Len(records) = Cardinality(among)
    /\ \A k \in 1..Len(records) :
          k <= Cardinality(among) =>
            /\ records[k].name = rows[RowAt(among, k)].name
            /\ records[k].location = rows[RowAt(among, k)].location
            /\ records[k].company_id = extract_company_id_from_path(rows[RowAt(among, k)].href)

\* the HTML strategy fetched a page that has the table
TableExtracted ==
    /\ op = "list" /\ pc = "done"
    /\ Len(steps) = 2 /\ steps[2].fetched
    /\ markup.table.present

\* C16: the HTML-table extraction returns one record per row after the header
\* that has an anchor in its first cell, skipping only the rows without an
\* anchor and the rows whose href an earlier kept row has: the records follow
\* the document order and the first occurrence of an href is the one kept.
C16_OneRecordPerAnchoredRow ==
    TableExtracted =>
        RecordsOfRows(TableRecords, markup.table.rows,
                      FirstOfHref(markup.table.rows, AnchoredRows(markup.table.rows)))

\* C16, amended: the rows with fewer than two cells are skipped as well, and
\* do not count as earlier occurrences of their href.
C16_OneRecordPerTwoCellAnchoredRow ==
    TableExtracted =>
        RecordsOfRows(TableRecords, markup.table.rows,
                      FirstOfHref(markup.table.rows, TwoCellAnchoredRows(markup.table.rows)))

\* a table whose two data rows have the same href gave the first row's record
C16_Witness ==
    /\ TableExtracted
    /\ Len(markup.table.rows) = 3
    /\ TwoCellAnchoredRows(markup.table.rows) = {2, 3}
    /\ markup.table.rows[2].href = markup.table.rows[3].href
    /\ markup.table.rows[2].name # markup.table.rows[3].name
    /\ Len(TableRecords) = 1
    /\ TableRecords[1].name = markup.table.rows[2].name

-----------------------------------------------------------------------------
(* Properties of the entity recovery (SpecExtract) *)

\* the state entries whose key begins with the entity prefix and whose value
\* is a mapping that has an id which is not null
EntitiesWithId(entries) ==
    {i \in 1..Len(entries) :
        /\ StartsWith(entries[i].key, AUCTIONEER_REF_PREFIX)
        /\ entries[i].isdict
        /\ entries[i].val.id.tag \notin {"none", "missing"}}

\* the last of them that has the id
LastWithId(entries, id) ==
    CHOOSE i \in EntitiesWithId(entries) :
        /\ entries[i].val.id.val = id
        /\ \A j \in EntitiesWithId(entries) : entries[j].val.id.val = id => j <= i

\* C17: entity recovery collects every state entry whose key begins with
\* Auctioneer: and whose value is a mapping with an id that is not null, the
\* id 0 included, and nothing else; when two entries have the same id the
\* later one is the one kept.
C17_CollectsEveryEntityWithId ==
    (op = "list_from_state" /\ pc = "done" /\ fetches[1].outcome = "ok"
        /\ markup.script = "state") =>
        \E auctioneers \in {extract_auctioneers_from_apollo(extract_apollo_state(markup))} :
            /\ {auctioneers[k].id : k \in 1..Len(auctioneers)} =
                  {markup.entries[i].val.id.val : i \in EntitiesWithId(markup.entries)}
            /\ \A k, l \in 1..Len(auctioneers) :
                  auctioneers[k].id = auctioneers[l].id => k = l
            /\ \A k \in 1..Len(auctioneers) :
                  auctioneers[k].id \in
                      {markup.entries[i].val.id.val : i \in EntitiesWithId(markup.entries)}
                  => auctioneers[k].val =
                        markup.entries[LastWithId(markup.entries, auctioneers[k].id)].val

=============================================================================
